---------------------------- MODULE Spec2Model ----------------------------
(***************************************************************************)
(* TradePilot quantitative core: confidence scorer, options strategy       *)
(* decision tree and indicator engine, modelled from py-engine/app.        *)
(*                                                                         *)
(* Numbers.  Python floats are modelled as scaled integers:                *)
(*   - sub-scores are held in THIRDS of a point (the momentum adjustment   *)
(*     (confirmations/signals - 0.5) * 40 has denominator 3);              *)
(*   - the composite is held in TENTHS (round(x, 1));                      *)
(*   - rvol and atr_percent are held in HUNDREDTHS.                        *)
(* Optional values are sequences: <<>> is None, <<v>> is the value v.      *)
(***************************************************************************)
EXTENDS Integers, Sequences, FiniteSets, TLC

VARIABLES
    req,        \* arguments of the ConfidenceScorer.score call
    breakdown,  \* the ConfidenceBreakdown it returned (None before the call)
    optReq,     \* arguments of the OptionsStrategyEngine.recommend call
    optRec,     \* the OptionsRecommendation it returned (None before the call)
    bars,       \* TickerData.bars handed to IndicatorEngine
    self_df,    \* IndicatorEngine.df after __init__ (None before construction)
    snapshot,   \* the IndicatorSnapshot of get_snapshot (None before the call)
    instruments,    \* the per-ticker dicts handed to _compute_cross_signals
    signals,        \* the signal list it returned (None before the call)
    form,           \* form fields and server state of an /api/analyze/upload request
    response,       \* what analyze_with_upload did and answered (None before)
    quick_req,      \* QuickAnalyzeRequest and server state of an /api/analyze/quick request
    quick_response, \* what analyze_quick did and answered (None before)
    market,         \* the frames RegimeEngine._fetch returns for SPY, QQQ and ^VIX
    market_regime,  \* the MarketRegime of RegimeEngine.analyze (None before)
    plans_v2,       \* the plans_v2 collection: plan id -> document
    plan_response,  \* the answer to the latest /api/v2/plans request
    exit_tasks      \* log_exit requests in progress between their awaits

crossVars == <<instruments, signals>>
apiVars == <<form, response, quick_req, quick_response>>
regimeVars == <<market, market_regime>>
planVars == <<plans_v2, plan_response, exit_tasks>>
vars == <<req, breakdown, optReq, optRec, bars, self_df, snapshot,
          crossVars, apiVars, regimeVars, planVars>>

None == <<>>
Some(x) == <<x>>
Max2(a, b) == IF a >= b THEN a ELSE b
Min2(a, b) == IF a <= b THEN a ELSE b
Abs(a) == IF a >= 0 THEN a ELSE 0 - a

(***************************************************************************)
(* Enumerations of models/schemas.py                                       *)
(***************************************************************************)
TradeType == {"day_trade", "swing"}
Direction == {"bullish", "bearish", "neutral"}
RegimeType == {"strong_uptrend", "uptrend", "range_bound", "downtrend",
               "strong_downtrend", "high_volatility"}
EventRisk == {"low", "moderate", "high", "extreme"}
OptionsStrategy == {"long_call", "long_put", "bull_call_spread", "bear_put_spread",
                    "bull_put_spread", "bear_call_spread", "iron_condor",
                    "straddle", "strangle", "stock_only"}

(***************************************************************************)
(* Bounds of the model                                                     *)
(***************************************************************************)
MaxMacroEvents == 2     \* longest macro_events_this_week list
MaxGeoEvents == 3       \* most active_geopolitical events

\* Python truthiness of an Optional[float]: None and 0.0 are falsy.
Truthy(o) == o # None /\ o[1] # 0

\* Mutant of Clamp: the lower bound max(0, ...) is forgotten.
ClampNoFloor(s3) == Min2(300, s3)

\* max(0, min(100, score)) on a score held in thirds
Clamp(s3) == Max2(0, Min2(300, s3))

(***************************************************************************)
(* ConfidenceScorer._score_trend                                           *)
(***************************************************************************)
_score_trend(ind, direction) ==
    LET stack == IF ind.ema_stack = Some(direction) THEN 25
                 ELSE IF ind.ema_stack # None /\ ind.ema_stack # Some("neutral")
                         /\ ind.ema_stack # Some(direction) THEN -25
                 ELSE 0
        above(e) == Truthy(e) /\ ind.price > e[1]
        below(e) == Truthy(e) /\ ind.price < e[1]
        emas == IF direction = "bullish" THEN
                    (IF above(ind.ema_20) THEN 10 ELSE 0)
                  + (IF above(ind.ema_50) THEN 8 ELSE 0)
                  + (IF above(ind.ema_200) THEN 7 ELSE 0)
                  - (IF below(ind.ema_200) THEN 15 ELSE 0)
                ELSE IF direction = "bearish" THEN
                    (IF below(ind.ema_20) THEN 10 ELSE 0)
                  + (IF below(ind.ema_50) THEN 8 ELSE 0)
                  + (IF below(ind.ema_200) THEN 7 ELSE 0)
                  - (IF above(ind.ema_200) THEN 15 ELSE 0)
                ELSE 0
    IN Clamp(3 * (50 + stack + emas))

(***************************************************************************)
(* ConfidenceScorer._score_momentum.  confirmations are counted in halves  *)
(* (conf2 = 2 * confirmations); the result is in thirds:                   *)
(*   3 * (confirmations/signals - 0.5) * 40 = 60*conf2/signals - 60.       *)
(***************************************************************************)
RsiSignals(ind) == IF ind.rsi_14 # None THEN 1 ELSE 0
RsiConf2(ind, direction) ==
    IF ind.rsi_14 = None THEN 0
    ELSE LET r == ind.rsi_14[1] IN
         IF direction = "bullish" THEN
              IF 40 <= r /\ r <= 70 THEN 2
              ELSE IF r > 70 THEN 0
              ELSE IF r < 30 THEN 1 ELSE 0
         ELSE IF direction = "bearish" THEN
              IF 30 <= r /\ r <= 60 THEN 2
              ELSE IF r < 30 THEN 0
              ELSE IF r > 70 THEN 1 ELSE 0
         ELSE 0
RsiPenalty(ind, direction) ==
    IF ind.rsi_14 = None THEN 0
    ELSE LET r == ind.rsi_14[1] IN
         IF direction = "bullish" /\ ~(40 <= r /\ r <= 70) /\ r > 70 THEN -10
         ELSE IF direction = "bearish" /\ ~(30 <= r /\ r <= 60) /\ r < 30 THEN -10
         ELSE 0
MacdConf2(ind, direction) ==
    IF ind.macd = None THEN 0
    ELSE LET m == ind.macd[1] IN
         IF direction = "bullish" THEN
              (IF m.histogram > 0 THEN 2 ELSE 0) + (IF m.line > m.signal THEN 1 ELSE 0)
         ELSE IF direction = "bearish" THEN
              (IF m.histogram < 0 THEN 2 ELSE 0) + (IF m.line < m.signal THEN 1 ELSE 0)
         ELSE 0
StochConf2(ind, direction) ==
    IF ind.stoch_rsi = None THEN 0
    ELSE LET s == ind.stoch_rsi[1] IN
         IF direction = "bullish" /\ s.k > s.d THEN 2
         ELSE IF direction = "bearish" /\ s.k < s.d THEN 2
         ELSE 0
DivergenceAdj(ind, direction) ==
    IF ind.rsi_divergence = None THEN 0
    ELSE LET d == ind.rsi_divergence[1] IN
         IF direction = "bullish" /\ d = "bullish_divergence" THEN 15
         ELSE IF direction = "bearish" /\ d = "bearish_divergence" THEN 15
         ELSE IF direction = "bullish" /\ d = "bearish_divergence" THEN -15
         ELSE IF direction = "bearish" /\ d = "bullish_divergence" THEN -15
         ELSE 0
MomentumSignals(ind) ==
    RsiSignals(ind) + (IF ind.macd # None THEN 1 ELSE 0)
                    + (IF ind.stoch_rsi # None THEN 1 ELSE 0)
MomentumConf2(ind, direction) ==
    RsiConf2(ind, direction) + MacdConf2(ind, direction) + StochConf2(ind, direction)
\* (confirmation_pct - 0.5) * 40, in thirds; 0 when no signal is present
ConfirmationAdj3(ind, direction) ==
    IF MomentumSignals(ind) > 0
    THEN (60 * MomentumConf2(ind, direction)) \div MomentumSignals(ind) - 60
    ELSE 0
_score_momentum(ind, direction) ==
    Clamp(3 * (50 + RsiPenalty(ind, direction) + DivergenceAdj(ind, direction))
          + ConfirmationAdj3(ind, direction))

(***************************************************************************)
(* ConfidenceScorer._score_volume (rvol in hundredths)                     *)
(***************************************************************************)
_score_volume(ind, direction) ==
    LET rv == IF ind.rvol = None THEN 0
              ELSE IF ind.rvol[1] >= 200 THEN 25
              ELSE IF ind.rvol[1] >= 150 THEN 15
              ELSE IF ind.rvol[1] >= 100 THEN 5
              ELSE IF ind.rvol[1] < 70 THEN -15
              ELSE 0
        obv == IF ind.obv_trend = None THEN 0
               ELSE IF ind.obv_trend = Some(direction) THEN 15
               ELSE IF ind.obv_trend # Some("neutral") THEN -15
               ELSE 0
        vw == IF ind.price_vs_vwap = None THEN 0
              ELSE IF direction = "bullish" /\ ind.price_vs_vwap = Some("above") THEN 5
              ELSE IF direction = "bearish" /\ ind.price_vs_vwap = Some("below") THEN 5
              ELSE IF direction = "bullish" /\ ind.price_vs_vwap = Some("below") THEN -5
              ELSE IF direction = "bearish" /\ ind.price_vs_vwap = Some("above") THEN -5
              ELSE 0
    IN Clamp(3 * (50 + rv + obv + vw))

(***************************************************************************)
(* ConfidenceScorer._score_volatility (atr_percent in hundredths)          *)
(***************************************************************************)
_score_volatility(ind, trade_type) ==
    LET atr == IF ind.atr_percent = None THEN 0
               ELSE LET a == ind.atr_percent[1] IN
                    IF trade_type = "day_trade" THEN
                         IF a >= 300 THEN 20
                         ELSE IF a >= 200 THEN 10
                         ELSE IF a < 100 THEN -20
                         ELSE 0
                    ELSE IF 150 <= a /\ a <= 400 THEN 15
                         ELSE IF a > 600 THEN -15
                         ELSE 0
        sq == IF ind.bollinger # None /\ ind.bollinger[1].squeeze THEN 15 ELSE 0
    IN Clamp(3 * (50 + atr + sq))

(***************************************************************************)
(* ConfidenceScorer._score_regime                                          *)
(***************************************************************************)
_score_regime(regime, direction) ==
    LET md == IF regime.market_direction = direction THEN 20
              ELSE IF regime.market_direction # "neutral" THEN -20
              ELSE 0
        up == regime.spy_regime \in {"strong_uptrend", "uptrend"}
        down == regime.spy_regime \in {"strong_downtrend", "downtrend"}
        rt == IF direction = "bullish" THEN (IF up THEN 15 ELSE IF down THEN -15 ELSE 0)
              ELSE IF direction = "bearish" THEN (IF down THEN 15 ELSE IF up THEN -15 ELSE 0)
              ELSE 0
        vx == IF regime.vix < 15 THEN (IF direction = "bullish" THEN 5 ELSE -5)
              ELSE IF regime.vix > 30 THEN -10
              ELSE IF regime.vix > 25 THEN (IF direction = "bearish" THEN 5 ELSE -5)
              ELSE 0
    IN Clamp(3 * (50 + md + rt + vx))

(***************************************************************************)
(* ConfidenceScorer._score_catalysts                                       *)
(***************************************************************************)
\* Mutant of risk_penalty: every tier is shifted by one (low already costs 5).
risk_penaltyShifted(r) ==
    CASE r = "low" -> -5
      [] r = "moderate" -> -15
      [] r = "high" -> -25
      [] r = "extreme" -> -25
risk_penalty(r) ==
    CASE r = "low" -> 0
      [] r = "moderate" -> -5
      [] r = "high" -> -15
      [] r = "extreme" -> -25
HighImpactCount(events) ==
    Cardinality({i \in DOMAIN events : events[i] \in {"high", "extreme"}})
_score_catalysts(catalysts, direction) ==
    LET pb == catalysts.positioning_bias
        bias == IF pb = "risk-on" /\ direction = "bullish" THEN 15
                ELSE IF pb = "risk-off" /\ direction = "bearish" THEN 15
                ELSE IF pb = "risk-on" /\ direction = "bearish" THEN -10
                ELSE IF pb = "risk-off" /\ direction = "bullish" THEN -10
                ELSE IF pb = "wait-for-catalyst" THEN -10
                ELSE 0
        geo == IF catalysts.active_geopolitical > 0
               THEN Min2(catalysts.active_geopolitical * 8, 20) ELSE 0
    IN Clamp(3 * (50 + risk_penalty(catalysts.overall_event_risk) + bias
                  - HighImpactCount(catalysts.macro_events_this_week) * 5 - geo))


(***************************************************************************)
(* ConfidenceBreakdown.composite.  With the sub-scores in thirds and the   *)
(* weights in hundredths, WeightedSum300 is 300 times the weighted sum.    *)
(* round(x, 1) acts on the binary float of the sum: a sum that is not an   *)
(* exact decimal tie rounds to the nearest tenth; at an exact tie (x.x5)   *)
(* the accumulated float error decides, so either neighbouring tenth is a  *)
(* possible value.                                                         *)
(***************************************************************************)
\* Mutant of WeightedSum300: the volume and volatility weights are swapped.
WeightedSum300Swapped(b) ==
      b.trend_alignment * 15
    + b.momentum_confirmation * 12
    + b.volume_confirmation * 8
    + b.volatility_context * 12
    + b.regime_alignment * 13
    + b.catalyst_alignment * 13
    + b.historical_analog * 12
    + b.personal_edge * 15
WeightedSum300(b) ==
      b.trend_alignment * 15
    + b.momentum_confirmation * 12
    + b.volume_confirmation * 12
    + b.volatility_context * 8
    + b.regime_alignment * 13
    + b.catalyst_alignment * 13
    + b.historical_analog * 12
    + b.personal_edge * 15
Round1(n300) ==
    LET q == n300 \div 30
        r == n300 % 30
    IN IF r < 15 THEN {q} ELSE IF r > 15 THEN {q + 1} ELSE {q, q + 1}
composite(b) == Round1(WeightedSum300(b))

(***************************************************************************)
(* ConfidenceBreakdown.rating, on the composite in tenths.  The labels are *)
(* written with "-" for the source's dash.                                 *)
(***************************************************************************)
\* Mutant of rating: the thresholds are exclusive.
ratingStrict(score) ==
    IF score > 800 THEN "A - High Conviction"
    ELSE IF score > 650 THEN "B - Favorable Setup"
    ELSE IF score > 500 THEN "C - Mixed Signals"
    ELSE IF score > 350 THEN "D - Proceed With Caution"
    ELSE "F - Avoid"
rating(score) ==
    IF score >= 800 THEN "A - High Conviction"
    ELSE IF score >= 650 THEN "B - Favorable Setup"
    ELSE IF score >= 500 THEN "C - Mixed Signals"
    ELSE IF score >= 350 THEN "D - Proceed With Caution"
    ELSE "F - Avoid"

(***************************************************************************)
(* ConfidenceScorer.score: the eight fields of the ConfidenceBreakdown.    *)
(* personal_win_rate is given in whole points.                             *)
(***************************************************************************)
score(r) ==
    [trend_alignment       |-> _score_trend(r.indicators, r.direction),
     momentum_confirmation |-> _score_momentum(r.indicators, r.direction),
     volume_confirmation   |-> _score_volume(r.indicators, r.direction),
     volatility_context    |-> _score_volatility(r.indicators, r.trade_type),
     regime_alignment      |-> IF r.regime # None
                               THEN _score_regime(r.regime[1], r.direction) ELSE 150,
     catalyst_alignment    |-> IF r.catalysts # None
                               THEN _score_catalysts(r.catalysts[1], r.direction) ELSE 150,
     historical_analog     |-> 150,
     personal_edge         |-> IF r.personal_win_rate # None
                               THEN 3 * r.personal_win_rate[1] ELSE 150]

(***************************************************************************)
(* Inputs of score.  Each factor group ranges over its whole value set     *)
(* while the other groups sit at one of the base Profiles, so that every   *)
(* sub-scorer sees each of its inputs and the composite is taken at the    *)
(* aligned and the adverse extremes.                                       *)
(***************************************************************************)
EmaValues == {None, Some(90), Some(100), Some(110)}
RsiValues == {None, Some(25), Some(30), Some(35), Some(40), Some(60),
              Some(65), Some(70), Some(75)}
MacdValues == {None} \cup
    {Some([line |-> l, signal |-> 0, histogram |-> h]) : l \in {-1, 0, 1}, h \in {-1, 0, 1}}
StochValues == {None} \cup {Some([k |-> k, d |-> 50]) : k \in {40, 50, 60}}
DivergenceValues == {None, Some("none"), Some("bullish_divergence"), Some("bearish_divergence")}
RvolValues == {None, Some(50), Some(70), Some(90), Some(100), Some(150), Some(200)}
OptDirection == {None} \cup {Some(d) : d \in Direction}
VwapSides == {None, Some("above"), Some("below"), Some("at")}
AtrPercentValues == {None, Some(50), Some(100), Some(150), Some(200), Some(300),
                     Some(400), Some(500), Some(600), Some(700)}
BollingerValues == {None, Some([squeeze |-> FALSE]), Some([squeeze |-> TRUE])}
VixValues == {10, 15, 20, 25, 28, 30, 35}
PositioningBias == {"", "risk-on", "risk-off", "neutral", "wait-for-catalyst"}
PersonalWinRates == {None, Some(0), Some(50), Some(70), Some(100)}

SeqsUpTo(S, n) == UNION {[1..k -> S] : k \in 0..n}

TrendInputs ==
    [ema_stack : OptDirection, ema_20 : EmaValues, ema_50 : EmaValues, ema_200 : EmaValues]
MomentumInputs ==
    [rsi_14 : RsiValues, macd : MacdValues, stoch_rsi : StochValues,
     rsi_divergence : DivergenceValues]
VolumeInputs == [rvol : RvolValues, obv_trend : OptDirection, price_vs_vwap : VwapSides]
VolatilityInputs == [atr_percent : AtrPercentValues, bollinger : BollingerValues]
RegimeInputs == {None} \cup
    {Some(m) : m \in [market_direction : Direction, spy_regime : RegimeType, vix : VixValues]}
CatalystInputs == {None} \cup
    {Some(c) : c \in [overall_event_risk : EventRisk,
                      positioning_bias : PositioningBias,
                      macro_events_this_week : SeqsUpTo(EventRisk, MaxMacroEvents),
                      active_geopolitical : 0..MaxGeoEvents]}

\* An IndicatorSnapshot assembled from its factor groups (price fixed at 100).
Snapshot(t, m, v, x) ==
    [price |-> 100,
     ema_stack |-> t.ema_stack, ema_20 |-> t.ema_20, ema_50 |-> t.ema_50, ema_200 |-> t.ema_200,
     rsi_14 |-> m.rsi_14, macd |-> m.macd, stoch_rsi |-> m.stoch_rsi,
     rsi_divergence |-> m.rsi_divergence,
     rvol |-> v.rvol, obv_trend |-> v.obv_trend, price_vs_vwap |-> v.price_vs_vwap,
     atr_percent |-> x.atr_percent, bollinger |-> x.bollinger]

\* Base profiles: nothing known, everything in favour of a long, everything
\* in favour of a short.
ProfileEmpty ==
    [t |-> [ema_stack |-> None, ema_20 |-> None, ema_50 |-> None, ema_200 |-> None],
     m |-> [rsi_14 |-> None, macd |-> None, stoch_rsi |-> None, rsi_divergence |-> None],
     v |-> [rvol |-> None, obv_trend |-> None, price_vs_vwap |-> None],
     x |-> [atr_percent |-> None, bollinger |-> None],
     regime |-> None, catalysts |-> None, personal_win_rate |-> None]
ProfileLong ==
    [t |-> [ema_stack |-> Some("bullish"), ema_20 |-> Some(90), ema_50 |-> Some(90),
            ema_200 |-> Some(90)],
     m |-> [rsi_14 |-> Some(60), macd |-> Some([line |-> 1, signal |-> 0, histogram |-> 1]),
            stoch_rsi |-> Some([k |-> 60, d |-> 50]),
            rsi_divergence |-> Some("bullish_divergence")],
     v |-> [rvol |-> Some(200), obv_trend |-> Some("bullish"), price_vs_vwap |-> Some("above")],
     x |-> [atr_percent |-> Some(300), bollinger |-> Some([squeeze |-> TRUE])],
     regime |-> Some([market_direction |-> "bullish", spy_regime |-> "strong_uptrend",
                      vix |-> 10]),
     catalysts |-> Some([overall_event_risk |-> "low", positioning_bias |-> "risk-on",
                         macro_events_this_week |-> <<>>, active_geopolitical |-> 0]),
     personal_win_rate |-> Some(70)]
ProfileShort ==
    [t |-> [ema_stack |-> Some("bearish"), ema_20 |-> Some(110), ema_50 |-> Some(110),
            ema_200 |-> Some(110)],
     m |-> [rsi_14 |-> Some(75), macd |-> Some([line |-> -1, signal |-> 0, histogram |-> -1]),
            stoch_rsi |-> Some([k |-> 40, d |-> 50]),
            rsi_divergence |-> Some("bearish_divergence")],
     v |-> [rvol |-> Some(50), obv_trend |-> Some("bearish"), price_vs_vwap |-> Some("below")],
     x |-> [atr_percent |-> Some(50), bollinger |-> Some([squeeze |-> FALSE])],
     regime |-> Some([market_direction |-> "bearish", spy_regime |-> "strong_downtrend",
                      vix |-> 35]),
     catalysts |-> Some([overall_event_risk |-> "extreme", positioning_bias |-> "risk-off",
                         macro_events_this_week |-> <<"high">>, active_geopolitical |-> 3]),
     personal_win_rate |-> Some(0)]
Profiles == {ProfileEmpty, ProfileLong, ProfileShort}

ScoreRequest(p, direction, trade_type) ==
    [indicators |-> Snapshot(p.t, p.m, p.v, p.x),
     direction |-> direction,
     trade_type |-> trade_type,
     regime |-> p.regime,
     catalysts |-> p.catalysts,
     personal_win_rate |-> p.personal_win_rate]

\* The requests that differ from the base profile p in one factor group g.
ProfileVariants(p, g) ==
    CASE g = "trend"      -> {[p EXCEPT !.t = t] : t \in TrendInputs}
      [] g = "momentum"   -> {[p EXCEPT !.m = m] : m \in MomentumInputs}
      [] g = "volume"     -> {[p EXCEPT !.v = v] : v \in VolumeInputs}
      [] g = "volatility" -> {[p EXCEPT !.x = x] : x \in VolatilityInputs}
      [] g = "regime"     -> {[p EXCEPT !.regime = r] : r \in RegimeInputs}
      [] g = "catalysts"  -> {[p EXCEPT !.catalysts = c] : c \in CatalystInputs}
      [] g = "personal"   -> {[p EXCEPT !.personal_win_rate = w] : w \in PersonalWinRates}
FactorGroups ==
    {"trend", "momentum", "volume", "volatility", "regime", "catalysts", "personal"}

(***************************************************************************)
(* The scorer as a state machine: a request is drawn, score is applied and *)
(* the breakdown is read together with its composite and rating.           *)
(***************************************************************************)
Breakdown(b, c) ==
    [trend_alignment       |-> b.trend_alignment,
     momentum_confirmation |-> b.momentum_confirmation,
     volume_confirmation   |-> b.volume_confirmation,
     volatility_context    |-> b.volatility_context,
     regime_alignment      |-> b.regime_alignment,
     catalyst_alignment    |-> b.catalyst_alignment,
     historical_analog     |-> b.historical_analog,
     personal_edge         |-> b.personal_edge,
     composite             |-> c,
     rating                |-> rating(c)]

InitScore ==
    /\ \E b \in Profiles, g \in FactorGroups, d \in Direction, tt \in TradeType :
          \E p \in ProfileVariants(b, g) : req = Some(ScoreRequest(p, d, tt))
    /\ breakdown = None
    /\ optReq = None /\ optRec = None
    /\ bars = None /\ self_df = None /\ snapshot = None
    /\ instruments = None /\ signals = None
    /\ form = None /\ response = None /\ quick_req = None /\ quick_response = None
    /\ market = None /\ market_regime = None
    /\ plans_v2 = None /\ plan_response = None /\ exit_tasks = None

Score ==
    /\ req # None
    /\ breakdown = None
    /\ \E c \in composite(score(req[1])) :
          breakdown' = Some(Breakdown(score(req[1]), c))
    /\ UNCHANGED <<req, optReq, optRec, bars, self_df, snapshot>>
    /\ UNCHANGED <<crossVars, apiVars, regimeVars, planVars>>

NextScore == Score
SpecScore == InitScore /\ [][NextScore]_vars

(***************************************************************************)
(* Claims about the confidence scorer (checked under SpecScore)            *)
(***************************************************************************)
SubScores(b) ==
    {b.trend_alignment, b.momentum_confirmation, b.volume_confirmation,
     b.volatility_context, b.regime_alignment, b.catalyst_alignment,
     b.historical_analog, b.personal_edge}

\* C1: for every request, each of the eight sub-scores of the returned
\* breakdown lies in [0,100] (0..300 thirds) and so does the composite
\* (0..1000 tenths).
C1_ScoresInRange ==
    breakdown # None =>
        /\ \A x \in SubScores(breakdown[1]) : 0 <= x /\ x <= 300
        /\ 0 <= breakdown[1].composite /\ breakdown[1].composite <= 1000

\* C1 witness: a breakdown whose catalyst adjustments sum below -50 (extreme
\* risk, opposed positioning, a high-impact event, three geopolitical events),
\* so that the clamp at 0 is what keeps the sub-score in range.
C1_Witness ==
    /\ breakdown # None
    /\ req[1].catalysts # None
    /\ req[1].catalysts[1].overall_event_risk = "extreme"
    /\ req[1].catalysts[1].active_geopolitical = 3
    /\ breakdown[1].catalyst_alignment = 0

\* 300 times the weighted sum, with the weights of the claim in hundredths
C2_Sum300(b) ==
      15 * b.trend_alignment + 12 * b.momentum_confirmation
    + 12 * b.volume_confirmation + 8 * b.volatility_context
    + 13 * b.regime_alignment + 13 * b.catalyst_alignment
    + 12 * b.historical_analog + 15 * b.personal_edge

\* C2: the composite is the weighted sum of the eight sub-scores with weights
\* 0.15, 0.12, 0.12, 0.08, 0.13, 0.13, 0.12, 0.15 (which sum to 1.0), rounded
\* to one decimal: it is a tenth nearest to the sum.
C2_CompositeIsWeightedSum ==
    /\ 15 + 12 + 12 + 8 + 13 + 13 + 12 + 15 = 100
    /\ breakdown # None =>
          /\ 30 * breakdown[1].composite - C2_Sum300(breakdown[1]) <= 15
          /\ C2_Sum300(breakdown[1]) - 30 * breakdown[1].composite <= 15

\* C2 witness: a breakdown whose sub-scores differ from one another and whose
\* weighted sum is not a whole tenth, so that weights and rounding both act.
C2_Witness ==
    /\ breakdown # None
    /\ breakdown[1].regime_alignment # breakdown[1].historical_analog
    /\ breakdown[1].trend_alignment # breakdown[1].personal_edge
    /\ C2_Sum300(breakdown[1]) % 30 # 0

RatingRank(r) ==
    CASE r = "F - Avoid" -> 0
      [] r = "D - Proceed With Caution" -> 1
      [] r = "C - Mixed Signals" -> 2
      [] r = "B - Favorable Setup" -> 3
      [] r = "A - High Conviction" -> 4

\* Over all composites 0.0 .. 100.0 the rating never drops as the composite
\* grows by a tenth (hence, by transitivity, as it grows at all).
RatingMonotone ==
    \A c \in 0..999 : RatingRank(rating(c)) <= RatingRank(rating(c + 1))

\* C3: the rating is a step function of the composite alone with inclusive
\* thresholds 80 / 65 / 50 / 35; every composite gets exactly one rating and
\* a higher composite never gets a lower rating.
C3_RatingStep ==
    breakdown # None =>
        LET c == breakdown[1].composite
            r == breakdown[1].rating
        IN /\ (r = "A - High Conviction") <=> (c >= 800)
           /\ (r = "B - Favorable Setup") <=> (650 <= c /\ c < 800)
           /\ (r = "C - Mixed Signals") <=> (500 <= c /\ c < 650)
           /\ (r = "D - Proceed With Caution") <=> (350 <= c /\ c < 500)
           /\ (r = "F - Avoid") <=> (c < 350)
           /\ RatingMonotone

\* C3 witness: a composite exactly on a threshold (50.0) rated "C", the
\* inclusive case.
C3_Witness ==
    /\ breakdown # None
    /\ breakdown[1].composite = 500
    /\ breakdown[1].rating = "C - Mixed Signals"

\* The case of C6, read at its strongest: every input of the trend, momentum,
\* volume and regime scorers confirms the long.
TrendAligned(ind) ==
    /\ ind.ema_stack = Some("bullish")
    /\ \A e \in {ind.ema_20, ind.ema_50, ind.ema_200} : e # None /\ e[1] > 0 /\ ind.price > e[1]
MomentumAligned(ind) ==
    /\ ind.rsi_14 # None /\ 40 <= ind.rsi_14[1] /\ ind.rsi_14[1] <= 70
    /\ ind.macd # None /\ ind.macd[1].histogram > 0 /\ ind.macd[1].line > ind.macd[1].signal
    /\ ind.stoch_rsi # None /\ ind.stoch_rsi[1].k > ind.stoch_rsi[1].d
    /\ ind.rsi_divergence = Some("bullish_divergence")
VolumeAligned(ind) ==
    /\ ind.rvol # None /\ ind.rvol[1] >= 200
    /\ ind.obv_trend = Some("bullish")
    /\ ind.price_vs_vwap = Some("above")
RegimeAligned(g) ==
    /\ g # None
    /\ g[1].market_direction = "bullish"
    /\ g[1].spy_regime \in {"strong_uptrend", "uptrend"}
    /\ g[1].vix < 15
ZeroCatalystRisk(c) ==
    /\ c # None
    /\ c[1].overall_event_risk = "low"
    /\ c[1].macro_events_this_week = <<>>
    /\ c[1].active_geopolitical = 0
C6_Case ==
    /\ req # None /\ breakdown # None
    /\ req[1].direction = "bullish"
    /\ TrendAligned(req[1].indicators)
    /\ MomentumAligned(req[1].indicators)
    /\ VolumeAligned(req[1].indicators)
    /\ RegimeAligned(req[1].regime)
    /\ ZeroCatalystRisk(req[1].catalysts)
    /\ req[1].personal_win_rate = Some(70)
C6_Extra ==
    /\ req[1].catalysts[1].positioning_bias = "risk-on"
    /\ breakdown[1].volatility_context >= 225

\* C6 as claimed: in the aligned case with zero catalyst risk and win rate 70
\* the composite is >= 80 and the rating is "A".
C6_Original ==
    C6_Case => /\ breakdown[1].composite >= 800
               /\ breakdown[1].rating = "A - High Conviction"

\* C6 as amended: in the aligned case with zero catalyst risk and win rate 70
\* the composite is >= 80 (rating "A") exactly when moreover the positioning
\* bias is risk-on and the volatility context scores at least 75; otherwise
\* it is below 80 and the rating is not "A".
C6_AlignedNeedsPositioningAndVolatility ==
    C6_Case =>
        /\ C6_Extra <=> breakdown[1].composite >= 800
        /\ C6_Extra <=> breakdown[1].rating = "A - High Conviction"

\* C6 witness: the aligned case with risk-on positioning and a volatility
\* context of at least 75, scored.
C6_Witness == C6_Case /\ C6_Extra /\ breakdown[1].composite >= 800

(***************************************************************************)
(* OptionsStrategyEngine (options/strategy.py).  score is the composite in *)
(* tenths, iv_rank is in whole points.  A rationale is its template text   *)
(* together with the numbers the f-string formats into it ({score:.0f},    *)
(* {iv_rank:.0f}); unused slots are None.                                  *)
(***************************************************************************)
\* "{x:.0f}" of a value given in tenths: nearest integer, ties to even (the
\* tie x.5 is exact in binary).
Fmt0(t) ==
    LET q == t \div 10
        r == t % 10
    IN IF r < 5 THEN q ELSE IF r > 5 THEN q + 1 ELSE IF q % 2 = 0 THEN q ELSE q + 1

Rec(strategy, text, sc, iv, structure) ==
    [strategy |-> strategy,
     rationale |-> [text |-> text, score |-> sc, iv_rank |-> iv],
     structure |-> structure]

CallPut(direction) == IF direction = "bullish" THEN "call" ELSE "put"
DayLongStructure(direction) ==
    IF direction = "bullish"
    THEN "Buy ATM or slightly OTM call, 0-2 DTE for gamma. Target 50% profit, stop at 30%."
    ELSE "Buy ATM or slightly OTM put, 0-2 DTE for gamma. Target 50% profit, stop at 30%."
DaySpreadStructure(direction) ==
    IF direction = "bullish"
    THEN "Bull call spread, tight strikes ($1-2 wide), 0-5 DTE."
    ELSE "Bear put spread, tight strikes ($1-2 wide), 0-5 DTE."

\* Mutant of _day_trade_strategy: the spread is offered from 40, not 50.
_day_trade_strategyFrom40(direction, iv_rank, sc, catalyst_risk) ==
    IF sc >= 700 /\ direction # "neutral" THEN
        Rec(IF direction = "bullish" THEN "long_call" ELSE "long_put",
            "High confidence ({score}) day trade. Direct long options for leverage. IV rank {iv_rank} is acceptable for intraday hold.",
            Some(Fmt0(sc)), Some(iv_rank), DayLongStructure(direction))
    ELSE IF sc >= 400 /\ direction # "neutral" THEN
        Rec(IF direction = "bullish" THEN "bull_call_spread" ELSE "bear_put_spread",
            "Moderate confidence ({score}) day trade. Debit spread caps risk while maintaining directional exposure. Better risk/reward than naked long in uncertain conditions.",
            Some(Fmt0(sc)), None, DaySpreadStructure(direction))
    ELSE
        Rec("stock_only",
            "Low confidence ({score}). Options leverage is inappropriate. Trade stock for reduced risk, or wait for better setup.",
            Some(Fmt0(sc)), None, "Stock shares only. Smaller position size.")

_day_trade_strategy(direction, iv_rank, sc, catalyst_risk) ==
    IF sc >= 700 /\ direction # "neutral" THEN
        Rec(IF direction = "bullish" THEN "long_call" ELSE "long_put",
            "High confidence ({score}) day trade. Direct long options for leverage. IV rank {iv_rank} is acceptable for intraday hold.",
            Some(Fmt0(sc)), Some(iv_rank), DayLongStructure(direction))
    ELSE IF sc >= 500 /\ direction # "neutral" THEN
        Rec(IF direction = "bullish" THEN "bull_call_spread" ELSE "bear_put_spread",
            "Moderate confidence ({score}) day trade. Debit spread caps risk while maintaining directional exposure. Better risk/reward than naked long in uncertain conditions.",
            Some(Fmt0(sc)), None, DaySpreadStructure(direction))
    ELSE
        Rec("stock_only",
            "Low confidence ({score}). Options leverage is inappropriate. Trade stock for reduced risk, or wait for better setup.",
            Some(Fmt0(sc)), None, "Stock shares only. Smaller position size.")

\* The three blocks of _swing_strategy; each yields None when it falls
\* through to the code below it.
\* Mutant of SwingHighIV: the iron condor is offered for a low score only.
SwingHighIVLowOnly(direction, iv_rank, sc) ==
    IF iv_rank >= 60 THEN
        IF direction = "bullish" /\ sc >= 550 THEN
            Some(Rec("bull_put_spread",
                "IV rank {iv_rank} is elevated - favor selling premium. Bull put spread collects credit with defined downside risk. Theta decay works in your favor.",
                None, Some(iv_rank),
                "Sell put spread below support. 30-45 DTE. Short strike at or below key support level."))
        ELSE IF direction = "bearish" /\ sc >= 550 THEN
            Some(Rec("bear_call_spread",
                "IV rank {iv_rank} is elevated - favor selling premium. Bear call spread profits from theta + directional move down.",
                None, Some(iv_rank),
                "Sell call spread above resistance. 30-45 DTE. Short strike at or above key resistance level."))
        ELSE IF sc < 550 THEN
            Some(Rec("iron_condor",
                "High IV ({iv_rank}) + neutral/low-conviction direction. Iron condor profits from range-bound action and IV crush.",
                None, Some(iv_rank),
                "Iron condor with wings outside expected move. 30-45 DTE. Manage at 50% max profit or 2x credit received loss."))
        ELSE None
    ELSE None

SwingHighIV(direction, iv_rank, sc) ==
    IF iv_rank >= 60 THEN
        IF direction = "bullish" /\ sc >= 550 THEN
            Some(Rec("bull_put_spread",
                "IV rank {iv_rank} is elevated - favor selling premium. Bull put spread collects credit with defined downside risk. Theta decay works in your favor.",
                None, Some(iv_rank),
                "Sell put spread below support. 30-45 DTE. Short strike at or below key support level."))
        ELSE IF direction = "bearish" /\ sc >= 550 THEN
            Some(Rec("bear_call_spread",
                "IV rank {iv_rank} is elevated - favor selling premium. Bear call spread profits from theta + directional move down.",
                None, Some(iv_rank),
                "Sell call spread above resistance. 30-45 DTE. Short strike at or above key resistance level."))
        ELSE IF direction = "neutral" \/ sc < 550 THEN
            Some(Rec("iron_condor",
                "High IV ({iv_rank}) + neutral/low-conviction direction. Iron condor profits from range-bound action and IV crush.",
                None, Some(iv_rank),
                "Iron condor with wings outside expected move. 30-45 DTE. Manage at 50% max profit or 2x credit received loss."))
        ELSE None
    ELSE None
SwingLowIV(direction, iv_rank, sc) ==
    IF iv_rank < 30 THEN
        IF sc >= 650 /\ direction # "neutral" THEN
            Some(Rec(IF direction = "bullish" THEN "long_call" ELSE "long_put",
                "IV rank {iv_rank} is low - premium is cheap. High confidence ({score}) supports directional long options. Potential for IV expansion adds to profit.",
                Some(Fmt0(sc)), Some(iv_rank),
                IF direction = "bullish"
                THEN "Buy call, ATM or 1 strike OTM. 30-60 DTE for time. Look for potential IV expansion catalyst."
                ELSE "Buy put, ATM or 1 strike OTM. 30-60 DTE for time. Look for potential IV expansion catalyst."))
        ELSE IF direction # "neutral" THEN
            Some(Rec(IF direction = "bullish" THEN "bull_call_spread" ELSE "bear_put_spread",
                "Low IV ({iv_rank}) + moderate confidence ({score}). Debit spread is cost-effective with defined max loss.",
                Some(Fmt0(sc)), Some(iv_rank),
                IF direction = "bullish"
                THEN "Bull call spread, 21-45 DTE. Strikes around key technical levels."
                ELSE "Bear put spread, 21-45 DTE. Strikes around key technical levels."))
        ELSE None
    ELSE None
\* Mutant of SwingMidIV: the fallback carries a tag outside OptionsStrategy.
SwingMidIVNoTag(direction, iv_rank, sc) ==
    IF sc >= 700 /\ direction # "neutral" THEN
        Rec(IF direction = "bullish" THEN "long_call" ELSE "long_put",
            "Mid IV ({iv_rank}) + high confidence ({score}). Strong setup justifies long premium exposure.",
            Some(Fmt0(sc)), Some(iv_rank),
            IF direction = "bullish"
            THEN "Buy call, ATM to slightly OTM. 30-45 DTE."
            ELSE "Buy put, ATM to slightly OTM. 30-45 DTE.")
    ELSE IF direction # "neutral" THEN
        Rec(IF direction = "bullish" THEN "bull_call_spread" ELSE "bear_put_spread",
            "Mid IV ({iv_rank}) + moderate confidence ({score}). Debit spread balances directional exposure with defined risk.",
            Some(Fmt0(sc)), Some(iv_rank),
            IF direction = "bullish" THEN "Bull call spread, 21-45 DTE."
            ELSE "Bear put spread, 21-45 DTE.")
    ELSE
        Rec("no_trade",
            "No clear directional edge (score: {score}). Avoid options. Trade stock or wait.",
            Some(Fmt0(sc)), None, "Stock only or no trade.")

SwingMidIV(direction, iv_rank, sc) ==
    IF sc >= 700 /\ direction # "neutral" THEN
        Rec(IF direction = "bullish" THEN "long_call" ELSE "long_put",
            "Mid IV ({iv_rank}) + high confidence ({score}). Strong setup justifies long premium exposure.",
            Some(Fmt0(sc)), Some(iv_rank),
            IF direction = "bullish"
            THEN "Buy call, ATM to slightly OTM. 30-45 DTE."
            ELSE "Buy put, ATM to slightly OTM. 30-45 DTE.")
    ELSE IF direction # "neutral" THEN
        Rec(IF direction = "bullish" THEN "bull_call_spread" ELSE "bear_put_spread",
            "Mid IV ({iv_rank}) + moderate confidence ({score}). Debit spread balances directional exposure with defined risk.",
            Some(Fmt0(sc)), Some(iv_rank),
            IF direction = "bullish" THEN "Bull call spread, 21-45 DTE."
            ELSE "Bear put spread, 21-45 DTE.")
    ELSE
        Rec("stock_only",
            "No clear directional edge (score: {score}). Avoid options. Trade stock or wait.",
            Some(Fmt0(sc)), None, "Stock only or no trade.")

\* Mutant of _swing_strategy: an extreme event risk keeps to the stock.
_swing_strategyExtremeRisk(direction, iv_rank, sc, catalyst_risk) ==
    IF catalyst_risk = "extreme" THEN
        Rec("stock_only",
            "No clear directional edge (score: {score}). Avoid options. Trade stock or wait.",
            Some(Fmt0(sc)), None, "Stock only or no trade.")
    ELSE IF SwingHighIV(direction, iv_rank, sc) # None THEN SwingHighIV(direction, iv_rank, sc)[1]
    ELSE IF SwingLowIV(direction, iv_rank, sc) # None THEN SwingLowIV(direction, iv_rank, sc)[1]
    ELSE SwingMidIV(direction, iv_rank, sc)

_swing_strategy(direction, iv_rank, sc, catalyst_risk) ==
    IF SwingHighIV(direction, iv_rank, sc) # None THEN SwingHighIV(direction, iv_rank, sc)[1]
    ELSE IF SwingLowIV(direction, iv_rank, sc) # None THEN SwingLowIV(direction, iv_rank, sc)[1]
    ELSE SwingMidIV(direction, iv_rank, sc)

\* Mutant of _earnings_play: the iron condor reaches up to 65, not 60.
_earnings_playFrom65(direction, iv_rank, sc) ==
    IF direction = "neutral" \/ sc < 650 THEN
        Rec("iron_condor",
            "Earnings within 3 days. IV is elevated (rank: {iv_rank}). Iron condor profits from post-earnings IV crush if stock stays within expected move.",
            None, Some(iv_rank),
            "Iron condor with wings at expected move boundaries. Expiry immediately after earnings.")
    ELSE IF sc >= 700 THEN
        Rec(IF direction = "bullish" THEN "long_call" ELSE "long_put",
            "High conviction ({score}) directional earnings play. WARNING: IV crush will erode premium post-earnings even if direction is correct. Stock must move beyond expected move to profit.",
            Some(Fmt0(sc)), None,
            IF direction = "bullish"
            THEN "Buy call, slightly OTM past expected move. Use defined risk (debit spread) to reduce IV crush impact."
            ELSE "Buy put, slightly OTM past expected move. Use defined risk (debit spread) to reduce IV crush impact.")
    ELSE
        Rec("strangle",
            "Earnings play with directional lean but not enough conviction for pure directional. Strangle profits from large move in either direction.",
            None, None,
            "Buy strangle: OTM call + OTM put, expiry right after earnings. Requires move beyond both breakevens.")

_earnings_play(direction, iv_rank, sc) ==
    IF direction = "neutral" \/ sc < 600 THEN
        Rec("iron_condor",
            "Earnings within 3 days. IV is elevated (rank: {iv_rank}). Iron condor profits from post-earnings IV crush if stock stays within expected move.",
            None, Some(iv_rank),
            "Iron condor with wings at expected move boundaries. Expiry immediately after earnings.")
    ELSE IF sc >= 700 THEN
        Rec(IF direction = "bullish" THEN "long_call" ELSE "long_put",
            "High conviction ({score}) directional earnings play. WARNING: IV crush will erode premium post-earnings even if direction is correct. Stock must move beyond expected move to profit.",
            Some(Fmt0(sc)), None,
            IF direction = "bullish"
            THEN "Buy call, slightly OTM past expected move. Use defined risk (debit spread) to reduce IV crush impact."
            ELSE "Buy put, slightly OTM past expected move. Use defined risk (debit spread) to reduce IV crush impact.")
    ELSE
        Rec("strangle",
            "Earnings play with directional lean but not enough conviction for pure directional. Strangle profits from large move in either direction.",
            None, None,
            "Buy strangle: OTM call + OTM put, expiry right after earnings. Requires move beyond both breakevens.")

\* indicators.iv_rank or 50: None and 0 both become 50
IvRankOrDefault(iv) == IF Truthy(iv) THEN iv[1] ELSE 50

\* Mutant of recommend: the earnings override stops one day short (< 3).
recommendBefore3(r) ==
    LET iv_rank == IvRankOrDefault(r.iv_rank)
        sc == r.composite
    IN IF r.days_to_earnings # None /\ r.days_to_earnings[1] < 3
       THEN _earnings_play(r.direction, iv_rank, sc)
       ELSE IF r.trade_type = "day_trade"
       THEN _day_trade_strategy(r.direction, iv_rank, sc, r.catalyst_risk)
       ELSE _swing_strategy(r.direction, iv_rank, sc, r.catalyst_risk)

recommend(r) ==
    LET iv_rank == IvRankOrDefault(r.iv_rank)
        sc == r.composite
    IN IF r.days_to_earnings # None /\ r.days_to_earnings[1] <= 3
       THEN _earnings_play(r.direction, iv_rank, sc)
       ELSE IF r.trade_type = "day_trade"
       THEN _day_trade_strategy(r.direction, iv_rank, sc, r.catalyst_risk)
       ELSE _swing_strategy(r.direction, iv_rank, sc, r.catalyst_risk)

\* Inputs of recommend
IvRanks == {None, Some(0), Some(10), Some(29), Some(30), Some(45), Some(59), Some(60), Some(80)}
Composites == {0, 349, 400, 499, 500, 549, 550, 599, 600, 645, 649, 650, 699, 700, 850, 1000}
DaysToEarnings == {None, Some(0), Some(3), Some(4), Some(10)}
Recommendations ==
    [trade_type : TradeType, direction : Direction, iv_rank : IvRanks,
     composite : Composites, catalyst_risk : EventRisk, days_to_earnings : DaysToEarnings]

InitOptions ==
    /\ optReq \in {Some(r) : r \in Recommendations}
    /\ optRec = None
    /\ req = None /\ breakdown = None
    /\ bars = None /\ self_df = None /\ snapshot = None
    /\ instruments = None /\ signals = None
    /\ form = None /\ response = None /\ quick_req = None /\ quick_response = None
    /\ market = None /\ market_regime = None
    /\ plans_v2 = None /\ plan_response = None /\ exit_tasks = None

Recommend ==
    /\ optReq # None
    /\ optRec = None
    /\ optRec' = Some(recommend(optReq[1]))
    /\ UNCHANGED <<req, breakdown, optReq, bars, self_df, snapshot>>
    /\ UNCHANGED <<crossVars, apiVars, regimeVars, planVars>>

NextOptions == Recommend
SpecOptions == InitOptions /\ [][NextOptions]_vars

(***************************************************************************)
(* Claims about the options selector (checked under SpecOptions)           *)
(***************************************************************************)
EarningsOverride(r) == r.days_to_earnings # None /\ r.days_to_earnings[1] <= 3

\* C4 as claimed: at composite 40 the recommendation is stock_only whatever
\* the other inputs are.
C4_Original ==
    (optRec # None /\ optReq[1].composite = 400) => optRec[1].strategy = "stock_only"

\* C4 as amended: at composite 40 the recommendation is stock_only exactly
\* when no earnings override applies and the trade is a day trade, or a swing
\* with neutral direction and IV rank below 60 (an absent or zero IV rank
\* counting as 50); with earnings within 3 days, and for a swing with IV rank
\* >= 60, it is iron_condor, and for a directional swing with IV rank below 60
\* it is a debit spread.
C4_StockOnlyAt40 ==
    (optRec # None /\ optReq[1].composite = 400) =>
        LET r == optReq[1]
            iv == IF r.iv_rank = None \/ r.iv_rank = Some(0) THEN 50 ELSE r.iv_rank[1]
            st == optRec[1].strategy
        IN /\ st = "stock_only" <=>
                 /\ ~EarningsOverride(r)
                 /\ \/ r.trade_type = "day_trade"
                    \/ r.direction = "neutral" /\ iv < 60
           /\ st = "iron_condor" <=>
                 \/ EarningsOverride(r)
                 \/ r.trade_type = "swing" /\ iv >= 60
           /\ st \in {"stock_only", "iron_condor", "bull_call_spread", "bear_put_spread"}

\* C4 witness: a bullish day trade at composite 40 without earnings override,
\* answered with stock_only.
C4_Witness ==
    /\ optRec # None
    /\ optReq[1].composite = 400
    /\ optReq[1].trade_type = "day_trade"
    /\ optReq[1].direction = "bullish"
    /\ optReq[1].days_to_earnings = None
    /\ optRec[1].strategy = "stock_only"

C5_Case ==
    /\ optRec # None
    /\ optReq[1].trade_type = "day_trade"
    /\ optReq[1].direction = "bullish"
    /\ optReq[1].composite = 850

\* C5 as claimed: a bullish day trade at composite 85 gets long_call with the
\* day-trade structure text, whatever IV rank, catalyst risk and days to
\* earnings are.
C5_Original ==
    C5_Case =>
        /\ optRec[1].strategy = "long_call"
        /\ optRec[1].structure =
             "Buy ATM or slightly OTM call, 0-2 DTE for gamma. Target 50% profit, stop at 30%."

\* C5 as amended: a bullish day trade at composite 85 gets long_call for every
\* IV rank, catalyst risk and days to earnings; the structure is the day-trade
\* text when days_to_earnings is absent or above 3, and the earnings-play text
\* when days_to_earnings is at most 3.
C5_DayTradeLongCall ==
    C5_Case =>
        /\ optRec[1].strategy = "long_call"
        /\ ~EarningsOverride(optReq[1]) =>
              optRec[1].structure =
                "Buy ATM or slightly OTM call, 0-2 DTE for gamma. Target 50% profit, stop at 30%."
        /\ EarningsOverride(optReq[1]) =>
              optRec[1].structure =
                "Buy call, slightly OTM past expected move. Use defined risk (debit spread) to reduce IV crush impact."

\* C5 witness: the bullish day trade at 85 with earnings exactly 3 days away,
\* answered with long_call and the earnings-play structure.
C5_Witness ==
    /\ C5_Case
    /\ optReq[1].days_to_earnings = Some(3)
    /\ optRec[1].strategy = "long_call"
    /\ optRec[1].structure # DayLongStructure("bullish")

IvOf(r) == IF r.iv_rank = None THEN 50 ELSE r.iv_rank[1]

\* C14: for every trade type, direction, IV rank (present or absent),
\* composite, catalyst risk and days to earnings (present or absent),
\* recommend returns one recommendation whose strategy is one of the ten
\* OptionsStrategy values, with a rationale and a structure.
C14_AlwaysOneStrategy ==
    optRec # None =>
        /\ optRec[1].strategy \in OptionsStrategy
        /\ Cardinality(OptionsStrategy) = 10
        /\ optRec[1].rationale.text # ""
        /\ optRec[1].structure # ""

\* C14 witness: the last fallback of the swing tree, a neutral swing at mid
\* IV without earnings, answered with stock_only, rationale and structure.
C14_Witness ==
    /\ optRec # None
    /\ optReq[1].trade_type = "swing"
    /\ optReq[1].direction = "neutral"
    /\ optReq[1].iv_rank = Some(45)
    /\ optReq[1].days_to_earnings = None
    /\ optRec[1].strategy = "stock_only"
    /\ optRec[1].structure = "Stock only or no trade."

\* C15 as claimed: with days_to_earnings present and <= 3 the strategy is
\* one of straddle, iron_condor, long_call, long_put.
C15_Original ==
    (optRec # None /\ EarningsOverride(optReq[1])) =>
        optRec[1].strategy \in {"straddle", "iron_condor", "long_call", "long_put"}

\* C15 as amended: with days_to_earnings present and <= 3 the strategy and
\* the structure are a function of direction and confidence alone, whatever
\* the trade type, IV rank and catalyst risk: iron_condor for neutral or
\* confidence below 60, long_call / long_put from 70, strangle in between.
C15_EarningsOverrideFirst ==
    (optRec # None /\ EarningsOverride(optReq[1])) =>
        LET r == optReq[1]
            st == optRec[1].strategy
        IN /\ st \in {"strangle", "iron_condor", "long_call", "long_put"}
           /\ st = "iron_condor" <=> (r.direction = "neutral" \/ r.composite < 600)
           /\ st = "long_call" <=> (r.direction = "bullish" /\ r.composite >= 700)
           /\ st = "long_put" <=> (r.direction = "bearish" /\ r.composite >= 700)
           /\ st = "strangle" <=>
                 (r.direction # "neutral" /\ r.composite >= 600 /\ r.composite < 700)
           /\ st = "iron_condor" => optRec[1].structure =
                 "Iron condor with wings at expected move boundaries. Expiry immediately after earnings."
           /\ st = "strangle" => optRec[1].structure =
                 "Buy strangle: OTM call + OTM put, expiry right after earnings. Requires move beyond both breakevens."

\* C15 witness: a bullish day trade at 65 with earnings in 3 days, answered
\* with strangle.
C15_Witness ==
    /\ optRec # None
    /\ optReq[1].trade_type = "day_trade"
    /\ optReq[1].direction = "bullish"
    /\ optReq[1].composite = 650
    /\ optReq[1].days_to_earnings = Some(3)
    /\ optRec[1].strategy = "strangle"

\* C16 as claimed: a neutral direction gets stock_only with a rationale in
\* every horizon, IV regime, confidence and earnings proximity.
C16_Original ==
    (optRec # None /\ optReq[1].direction = "neutral") =>
        /\ optRec[1].strategy = "stock_only"
        /\ optRec[1].rationale.text # ""

\* C16 as amended: a neutral direction gets stock_only exactly when no
\* earnings override applies and the trade is a day trade or the IV rank
\* (absent counting as 50) is below 60; with the earnings override or a swing
\* at IV rank >= 60 it gets iron_condor; a rationale is always given.
C16_NeutralStockOrCondor ==
    (optRec # None /\ optReq[1].direction = "neutral") =>
        LET r == optReq[1]
            calm == ~EarningsOverride(r) /\ (r.trade_type = "day_trade" \/ IvOf(r) < 60)
        IN /\ calm => optRec[1].strategy = "stock_only"
           /\ ~calm => optRec[1].strategy = "iron_condor"
           /\ optRec[1].rationale.text # ""

\* C16 witness: a neutral swing at IV rank 80 and composite 85 without
\* earnings, answered with iron_condor.
C16_Witness ==
    /\ optRec # None
    /\ optReq[1].direction = "neutral"
    /\ optReq[1].trade_type = "swing"
    /\ optReq[1].iv_rank = Some(80)
    /\ optReq[1].composite = 850
    /\ optReq[1].days_to_earnings = None
    /\ optRec[1].strategy = "iron_condor"

LongOf(direction) == IF direction = "bullish" THEN "long_call" ELSE "long_put"
DebitSpreadOf(direction) == IF direction = "bullish" THEN "bull_call_spread" ELSE "bear_put_spread"
CreditSpreadOf(direction) == IF direction = "bullish" THEN "bull_put_spread" ELSE "bear_call_spread"

\* C17 as claimed: a directional swing without earnings override gets, at IV
\* rank >= 60, the premium-selling spread or (low confidence) iron_condor; at
\* IV rank < 30, 0 included, the long option from confidence 65 and the debit
\* spread below; at IV rank in [30,60), and with an absent IV rank, the long
\* option from confidence 70 and the debit spread below.
C17_Original ==
    (/\ optRec # None
     /\ optReq[1].trade_type = "swing"
     /\ optReq[1].direction # "neutral"
     /\ ~EarningsOverride(optReq[1])) =>
        LET r == optReq[1]
            st == optRec[1].strategy
        IN /\ (r.iv_rank # None /\ r.iv_rank[1] >= 60) =>
                 st \in {CreditSpreadOf(r.direction), "iron_condor"}
           /\ (r.iv_rank # None /\ r.iv_rank[1] < 30) =>
                 st = IF r.composite >= 650 THEN LongOf(r.direction)
                      ELSE DebitSpreadOf(r.direction)
           /\ (r.iv_rank = None \/ (r.iv_rank[1] >= 30 /\ r.iv_rank[1] < 60)) =>
                 st = IF r.composite >= 700 THEN LongOf(r.direction)
                      ELSE DebitSpreadOf(r.direction)

PriceScale == 10000   \* fixed-point resolution of a price: 1/PriceScale
BasePrice == 10       \* close of the flat bars of the input series
MaxFlat == 20         \* most flat bars at the start of an input series
MaxTail == 2          \* most freely chosen bars after the flat ones

RsiPeriod == 14       \* _compute_rsi(df["close"], 14)
AtrPeriod == 14       \* _compute_atr(df, 14), _compute_adx(df, 14)
StochPeriod == 14     \* _compute_stoch_rsi(close, 14, 14, 3, 3)
RollWindow == 20      \* rolling(20) of volume, close and VWAP
MinPatternBars == 20  \* _detect_patterns returns [] below 20 bars

NaN == None
Px(x) == x * PriceScale

\* round(a / b) to the nearest integer, ties to even (b > 0)
RoundDiv(a, b) ==
    LET q == a \div b
        r == a % b
    IN IF 2 * r < b THEN q
       ELSE IF 2 * r > b THEN q + 1
       ELSE IF q % 2 = 0 THEN q ELSE q + 1

\* IndicatorEngine._safe_round on an optional value v/den, to units of 1/unit
_safe_round(o, den, unit) == IF o = NaN THEN None ELSE Some(RoundDiv(o[1] * unit, den))

\* df.sort_values("timestamp"): insertion of each bar after the bars whose
\* timestamp is not greater (stable).
RECURSIVE InsertSorted(_, _)
InsertSorted(sorted, b) ==
    IF sorted = <<>> THEN <<b>>
    ELSE IF sorted[Len(sorted)].timestamp <= b.timestamp THEN Append(sorted, b)
    ELSE Append(InsertSorted(SubSeq(sorted, 1, Len(sorted) - 1), b), sorted[Len(sorted)])
RECURSIVE SortFrom(_, _, _)
SortFrom(bs, i, acc) ==
    IF i > Len(bs) THEN acc ELSE SortFrom(bs, i + 1, InsertSorted(acc, bs[i]))
_to_dataframe(bs) == SortFrom(bs, 1, <<>>)

\* One step of pandas' ewm(adjust=False).mean() with alpha = num/den; an
\* observation equal to the running mean leaves it untouched.
EwmStep(prev, cur, num, den) ==
    IF prev = cur THEN prev ELSE ((den - num) * prev + num * cur) \div den

\* ewm(alpha=num/den, adjust=False).mean() of a column: NaN until the first
\* number, carried over a NaN observation.
RECURSIVE EwmFrom(_, _, _, _, _)
EwmFrom(xs, num, den, i, acc) ==
    IF i > Len(xs) THEN acc
    ELSE LET prev == IF i = 1 THEN NaN ELSE acc[i - 1]
             nxt == IF xs[i] = NaN THEN prev
                    ELSE IF prev = NaN THEN xs[i]
                    ELSE Some(EwmStep(prev[1], xs[i][1], num, den))
         IN EwmFrom(xs, num, den, i + 1, Append(acc, nxt))
Ewm(xs, num, den) == EwmFrom(xs, num, den, 1, <<>>)
EwmSpan(xs, span) == Ewm(xs, 2, span + 1)

\* min_periods: the mean is NaN until min_periods numbers have been observed
Observed(xs, i) == Cardinality({j \in 1..i : xs[j] # NaN})
EwmMinPeriods(xs, num, den, min_periods) ==
    LET m == Ewm(xs, num, den)
    IN [i \in 1..Len(xs) |-> IF Observed(xs, i) < min_periods THEN NaN ELSE m[i]]

\* Series.diff()
Diff(xs) ==
    [i \in 1..Len(xs) |->
        IF i = 1 \/ xs[i] = NaN \/ xs[i - 1] = NaN THEN NaN ELSE Some(xs[i][1] - xs[i - 1][1])]

\* rolling(w).sum(): NaN unless the window holds w numbers
RECURSIVE SumOver(_, _, _)
SumOver(xs, lo, hi) == IF lo > hi THEN 0 ELSE xs[hi][1] + SumOver(xs, lo, hi - 1)
RollingSum(xs, w) ==
    [i \in 1..Len(xs) |->
        IF i < w \/ \E j \in (i - w + 1)..i : xs[j] = NaN THEN NaN
        ELSE Some(SumOver(xs, i - w + 1, i))]
RollingMean(xs, w) ==
    LET t == RollingSum(xs, w)
    IN [i \in 1..Len(xs) |-> IF t[i] = NaN THEN NaN ELSE Some(t[i][1] \div w)]
RollingMin(xs, w) ==
    [i \in 1..Len(xs) |->
        IF i < w \/ \E j \in (i - w + 1)..i : xs[j] = NaN THEN NaN
        ELSE Some(CHOOSE v \in {xs[j][1] : j \in (i - w + 1)..i} :
                    \A j \in (i - w + 1)..i : v <= xs[j][1])]
RollingMax(xs, w) ==
    [i \in 1..Len(xs) |->
        IF i < w \/ \E j \in (i - w + 1)..i : xs[j] = NaN THEN NaN
        ELSE Some(CHOOSE v \in {xs[j][1] : j \in (i - w + 1)..i} :
                    \A j \in (i - w + 1)..i : v >= xs[j][1])]

CloseCol(df) == [i \in 1..Len(df) |-> Some(Px(df[i].close))]
HighCol(df) == [i \in 1..Len(df) |-> Some(Px(df[i].high))]
LowCol(df) == [i \in 1..Len(df) |-> Some(Px(df[i].low))]
VolumeCol(df) == [i \in 1..Len(df) |-> Some(df[i].volume)]

(***************************************************************************)
(* IndicatorEngine._compute_rsi, in hundredths of an RSI point.            *)
(* rsi = 100 - 100 / (1 + avg_gain/avg_loss) = 100 * avg_gain / (avg_gain  *)
(* + avg_loss); avg_loss.replace(0, nan) makes it NaN when avg_loss is 0.  *)
(***************************************************************************)
Gain(xs) ==
    LET delta == Diff(xs)
    IN [i \in 1..Len(xs) |-> IF delta[i] # NaN /\ delta[i][1] > 0 THEN delta[i] ELSE Some(0)]
Loss(xs) ==
    LET delta == Diff(xs)
    IN [i \in 1..Len(xs) |->
           IF delta[i] # NaN /\ delta[i][1] < 0 THEN Some(0 - delta[i][1]) ELSE Some(0)]

\* Mutant of RsiOf: the zero average loss is not replaced by NaN, so the
\* float division yields inf and the RSI 100 (0/0 stays NaN).
RsiOfNoReplace(g, l) ==
    IF g = NaN \/ l = NaN THEN NaN
    ELSE IF l[1] = 0 THEN (IF g[1] > 0 THEN Some(10000) ELSE NaN)
    ELSE Some((10000 * g[1]) \div (g[1] + l[1]))

RsiOf(g, l) ==
    IF g = NaN \/ l = NaN \/ l[1] = 0 THEN NaN
    ELSE Some((10000 * g[1]) \div (g[1] + l[1]))
_compute_rsi(xs, period) ==
    LET avg_gain == EwmMinPeriods(Gain(xs), 1, period, period)
        avg_loss == EwmMinPeriods(Loss(xs), 1, period, period)
    IN [i \in 1..Len(xs) |-> RsiOf(avg_gain[i], avg_loss[i])]

(***************************************************************************)
(* IndicatorEngine._compute_atr: EMA(span) of the true range; the NaN of   *)
(* close.shift(1) on the first bar is skipped by max(axis=1).              *)
(***************************************************************************)
TrueRange(df) ==
    [i \in 1..Len(df) |->
        IF i = 1 THEN Some(Px(df[i].high - df[i].low))
        ELSE Some(Px(Max2(df[i].high - df[i].low,
                          Max2(Abs(df[i].high - df[i - 1].close),
                               Abs(df[i].low - df[i - 1].close)))))]
_compute_atr(df, period) == EwmSpan(TrueRange(df), period)

(***************************************************************************)
(* IndicatorEngine._compute_vwap: rolling 20-bar VWAP, the typical price   *)
(* wherever the rolling volume is not > 0 (NaN included).                  *)
(***************************************************************************)
TypicalPrice(df) ==
    [i \in 1..Len(df) |-> Some(Px(df[i].high + df[i].low + df[i].close) \div 3)]
_compute_vwap(df) ==
    LET tp == TypicalPrice(df)
        tpv == [i \in 1..Len(df) |-> Some(tp[i][1] * df[i].volume)]
        cum_tp_vol == RollingSum(tpv, RollWindow)
        cum_vol == RollingSum(VolumeCol(df), RollWindow)
    IN [i \in 1..Len(df) |->
           IF cum_vol[i] # NaN /\ cum_vol[i][1] > 0
           THEN Some(cum_tp_vol[i][1] \div cum_vol[i][1])
           ELSE tp[i]]

(***************************************************************************)
(* Relative volume in hundredths: volume / vol_sma_20, and 1.0 wherever    *)
(* vol_sma_20 is not > 0 (NaN included).                                   *)
(***************************************************************************)
RvolCol(df) ==
    LET vol_sum == RollingSum(VolumeCol(df), RollWindow)
    IN [i \in 1..Len(df) |->
           IF vol_sum[i] # NaN /\ vol_sum[i][1] > 0
           THEN Some((100 * RollWindow * df[i].volume) \div vol_sum[i][1])
           ELSE Some(100)]

(***************************************************************************)
(* IndicatorEngine._compute_adx, in hundredths.  minus_dm is filtered      *)
(* against the already filtered plus_dm, as in the source.                 *)
(***************************************************************************)
PlusDM(df) ==
    [i \in 1..Len(df) |->
        IF i = 1 THEN Some(0)
        ELSE LET p == df[i].high - df[i - 1].high
                 m == df[i - 1].low - df[i].low
             IN IF p > m /\ p > 0 THEN Some(Px(p)) ELSE Some(0)]
MinusDM(df) ==
    LET plus_dm == PlusDM(df)
    IN [i \in 1..Len(df) |->
           IF i = 1 THEN Some(0)
           ELSE LET m == df[i - 1].low - df[i].low
                IN IF Px(m) > plus_dm[i][1] /\ m > 0 THEN Some(Px(m)) ELSE Some(0)]
\* 100 * smoothed_dm / atr; 0/0 is NaN (atr is 0 only while every bar so far
\* is flat, and then the directional movement is 0 as well)
DirectionalIndex(dm, atr) ==
    [i \in 1..Len(dm) |->
        IF atr[i] = NaN \/ dm[i] = NaN \/ atr[i][1] = 0 THEN NaN
        ELSE Some((10000 * dm[i][1]) \div atr[i][1])]
DxCol(plus_di, minus_di) ==
    [i \in 1..Len(plus_di) |->
        IF plus_di[i] = NaN \/ minus_di[i] = NaN \/ plus_di[i][1] + minus_di[i][1] = 0 THEN NaN
        ELSE Some((10000 * Abs(plus_di[i][1] - minus_di[i][1]))
                    \div (plus_di[i][1] + minus_di[i][1]))]
_compute_adx(df, period) ==
    LET atr == _compute_atr(df, period)
        plus_di == DirectionalIndex(EwmSpan(PlusDM(df), period), atr)
        minus_di == DirectionalIndex(EwmSpan(MinusDM(df), period), atr)
    IN EwmSpan(DxCol(plus_di, minus_di), period)

(***************************************************************************)
(* IndicatorEngine._compute_obv (volume scaled like a price for its EMA)   *)
(***************************************************************************)
RECURSIVE ObvFrom(_, _, _)
ObvFrom(df, i, acc) ==
    IF i > Len(df) THEN acc
    ELSE IF i = 1 THEN ObvFrom(df, 2, <<Some(0)>>)
    ELSE LET last == acc[i - 1][1]
             nxt == IF df[i].close > df[i - 1].close THEN last + Px(df[i].volume)
                    ELSE IF df[i].close < df[i - 1].close THEN last - Px(df[i].volume)
                    ELSE last
         IN ObvFrom(df, i + 1, Append(acc, Some(nxt)))
_compute_obv(df) == ObvFrom(df, 1, <<>>)

(***************************************************************************)
(* IndicatorEngine._compute_stoch_rsi, %K and %D in hundredths; the raw    *)
(* value is 50 wherever rsi_max - rsi_min is not > 0 (NaN included).       *)
(***************************************************************************)
StochRaw(rsi, stoch_period) ==
    LET rsi_min == RollingMin(rsi, stoch_period)
        rsi_max == RollingMax(rsi, stoch_period)
    IN [i \in 1..Len(rsi) |->
           IF rsi_min[i] # NaN /\ rsi_max[i] # NaN /\ rsi_max[i][1] - rsi_min[i][1] > 0
           THEN Some((10000 * (rsi[i][1] - rsi_min[i][1])) \div (rsi_max[i][1] - rsi_min[i][1]))
           ELSE Some(5000)]
StochK(xs, rsi_period, stoch_period, k_smooth) ==
    RollingMean(StochRaw(_compute_rsi(xs, rsi_period), stoch_period), k_smooth)
StochD(xs, rsi_period, stoch_period, k_smooth, d_smooth) ==
    RollingMean(StochK(xs, rsi_period, stoch_period, k_smooth), d_smooth)

(***************************************************************************)
(* IndicatorEngine.__init__: _to_dataframe then _compute_all.  The frame   *)
(* is the record of its columns.  An empty bar list has no "timestamp"     *)
(* column to sort by: the constructor raises and no engine exists.         *)
(***************************************************************************)
_compute_all(sorted) ==
    LET close == CloseCol(sorted)
        macd_line == [i \in 1..Len(sorted) |->
                        Some(EwmSpan(close, 12)[i][1] - EwmSpan(close, 26)[i][1])]
        macd_signal == EwmSpan(macd_line, 9)
        atr == _compute_atr(sorted, AtrPeriod)
        obv == _compute_obv(sorted)
    IN [raised |-> FALSE,
        bars |-> sorted,
        ema_9 |-> EwmSpan(close, 9),
        ema_20 |-> EwmSpan(close, 20),
        ema_50 |-> EwmSpan(close, 50),
        ema_200 |-> EwmSpan(close, 200),
        rsi_14 |-> _compute_rsi(close, RsiPeriod),
        macd_line |-> macd_line,
        macd_signal |-> macd_signal,
        macd_histogram |-> [i \in 1..Len(sorted) |-> Some(macd_line[i][1] - macd_signal[i][1])],
        vwap |-> _compute_vwap(sorted),
        rvol |-> RvolCol(sorted),
        atr_14 |-> atr,
        atr_percent |-> [i \in 1..Len(sorted) |->
                           IF sorted[i].close > 0
                           THEN Some((atr[i][1] * 10000) \div Px(sorted[i].close))
                           ELSE Some(0)],
        bb_middle |-> RollingMean(close, RollWindow),
        adx_14 |-> _compute_adx(sorted, AtrPeriod),
        obv |-> obv,
        obv_ema_20 |-> EwmSpan(obv, 20),
        stoch_rsi_k |-> StochK(close, RsiPeriod, StochPeriod, 3),
        stoch_rsi_d |-> StochD(close, RsiPeriod, StochPeriod, 3, 3)]

Columns ==
    {"ema_9", "ema_20", "ema_50", "ema_200", "rsi_14", "macd_line", "macd_signal",
     "macd_histogram", "vwap", "rvol", "atr_14", "atr_percent", "bb_middle", "adx_14",
     "obv", "obv_ema_20", "stoch_rsi_k", "stoch_rsi_d"}
RaisedFrame == [c \in Columns \cup {"bars"} |-> <<>>] @@ [raised |-> TRUE]

IndicatorEngineInit(bs) ==
    IF bs = <<>> THEN RaisedFrame ELSE _compute_all(_to_dataframe(bs))

\* df.iloc[i] restricted to the computed columns, with close
Row(f, i) == [c \in Columns |-> f[c][i]] @@ [close |-> Some(Px(f.bars[i].close))]

_all_notna(row, cols) == \A c \in cols : row[c] # NaN

_classify_ema_stack(row) ==
    IF \E c \in {"ema_9", "ema_20", "ema_50", "ema_200"} : row[c] = NaN THEN None
    ELSE IF row.ema_9[1] > row.ema_20[1] /\ row.ema_20[1] > row.ema_50[1]
            /\ row.ema_50[1] > row.ema_200[1] THEN Some("bullish")
    ELSE IF row.ema_9[1] < row.ema_20[1] /\ row.ema_20[1] < row.ema_50[1]
            /\ row.ema_50[1] < row.ema_200[1] THEN Some("bearish")
    ELSE Some("neutral")

(***************************************************************************)
(* IndicatorEngine._detect_patterns, one operator per block of the source  *)
(***************************************************************************)
EmaStackPatterns(latest) ==
    IF _all_notna(latest, {"ema_9", "ema_20", "ema_50", "ema_200"}) THEN
        IF latest.ema_9[1] > latest.ema_20[1] /\ latest.ema_20[1] > latest.ema_50[1]
           /\ latest.ema_50[1] > latest.ema_200[1] THEN <<"ema_stack_bullish">>
        ELSE IF latest.ema_9[1] < latest.ema_20[1] /\ latest.ema_20[1] < latest.ema_50[1]
                /\ latest.ema_50[1] < latest.ema_200[1] THEN <<"ema_stack_bearish">>
        ELSE <<>>
    ELSE <<>>

\* Mutant of CrossPatterns: the death-cross block is a second "if" whose
\* comparisons were copied from the golden-cross block without being flipped.
CrossPatternsCopied(prev, latest) ==
    IF _all_notna(latest, {"ema_50", "ema_200"}) /\ _all_notna(prev, {"ema_50", "ema_200"}) THEN
        (IF prev.ema_50[1] <= prev.ema_200[1] /\ latest.ema_50[1] > latest.ema_200[1]
         THEN <<"golden_cross">> ELSE <<>>)
        \o (IF prev.ema_50[1] <= prev.ema_200[1] /\ latest.ema_50[1] > latest.ema_200[1]
            THEN <<"death_cross">> ELSE <<>>)
    ELSE <<>>

CrossPatterns(prev, latest) ==
    IF _all_notna(latest, {"ema_50", "ema_200"}) /\ _all_notna(prev, {"ema_50", "ema_200"}) THEN
        IF prev.ema_50[1] <= prev.ema_200[1] /\ latest.ema_50[1] > latest.ema_200[1]
        THEN <<"golden_cross">>
        ELSE IF prev.ema_50[1] >= prev.ema_200[1] /\ latest.ema_50[1] < latest.ema_200[1]
        THEN <<"death_cross">>
        ELSE <<>>
    ELSE <<>>

MacdPatterns(prev, latest) ==
    IF _all_notna(latest, {"macd_line", "macd_signal"})
       /\ _all_notna(prev, {"macd_line", "macd_signal"}) THEN
        IF prev.macd_line[1] <= prev.macd_signal[1] /\ latest.macd_line[1] > latest.macd_signal[1]
        THEN <<"macd_bullish_crossover">>
        ELSE IF prev.macd_line[1] >= prev.macd_signal[1]
                /\ latest.macd_line[1] < latest.macd_signal[1]
        THEN <<"macd_bearish_crossover">>
        ELSE <<>>
    ELSE <<>>

RsiPatterns(latest) ==
    IF latest.rsi_14 # NaN THEN
        IF latest.rsi_14[1] > 7000 THEN <<"rsi_overbought">>
        ELSE IF latest.rsi_14[1] < 3000 THEN <<"rsi_oversold">>
        ELSE <<>>
    ELSE <<>>

VolumePatterns(latest) ==
    IF latest.rvol # NaN /\ latest.rvol[1] >= 200 THEN <<"volume_breakout">>
    ELSE IF latest.rvol # NaN /\ latest.rvol[1] >= 150 THEN <<"elevated_volume">>
    ELSE <<>>

VwapPatterns(prev, latest) ==
    IF latest.vwap # NaN /\ prev.vwap # NaN THEN
        IF prev.close[1] < prev.vwap[1] /\ latest.close[1] > latest.vwap[1]
        THEN <<"vwap_reclaim">>
        ELSE IF prev.close[1] > prev.vwap[1] /\ latest.close[1] < latest.vwap[1]
        THEN <<"vwap_rejection">>
        ELSE <<>>
    ELSE <<>>

TrendPatterns(latest) ==
    IF latest.adx_14 # NaN /\ latest.adx_14[1] > 2500
       /\ latest.ema_9 # NaN /\ latest.ema_20 # NaN THEN
        IF latest.ema_9[1] > latest.ema_20[1] THEN <<"strong_uptrend">>
        ELSE IF latest.ema_9[1] < latest.ema_20[1] THEN <<"strong_downtrend">>
        ELSE <<>>
    ELSE <<>>

\* Mutant of _detect_patterns: prev is taken two bars back (df.iloc[-3]).
_detect_patternsIloc3(f) ==
    LET n == Len(f.bars) IN
    IF n < MinPatternBars THEN <<>>
    ELSE LET latest == Row(f, n)
             prev == Row(f, n - 2)
         IN EmaStackPatterns(latest) \o CrossPatterns(prev, latest)
            \o MacdPatterns(prev, latest) \o RsiPatterns(latest)
            \o VolumePatterns(latest) \o VwapPatterns(prev, latest)
            \o TrendPatterns(latest)

_detect_patterns(f) ==
    LET n == Len(f.bars) IN
    IF n < MinPatternBars THEN <<>>
    ELSE LET latest == Row(f, n)
             prev == Row(f, n - 1)
         IN EmaStackPatterns(latest) \o CrossPatterns(prev, latest)
            \o MacdPatterns(prev, latest) \o RsiPatterns(latest)
            \o VolumePatterns(latest) \o VwapPatterns(prev, latest)
            \o TrendPatterns(latest)

(***************************************************************************)
(* IndicatorEngine.get_snapshot.  Snapshot units: prices, rvol and         *)
(* atr_percent in hundredths, rsi / stoch / adx in tenths, macd in         *)
(* thousandths.                                                            *)
(***************************************************************************)
OrZero(o) == IF o = None THEN 0 ELSE o[1]

AdxTrend(adx) ==
    IF adx = NaN THEN None
    ELSE IF adx[1] >= 4000 THEN Some("strong")
    ELSE IF adx[1] >= 2500 THEN Some("moderate")
    ELSE IF adx[1] >= 1500 THEN Some("weak")
    ELSE Some("no_trend")

ObvTrend(latest) ==
    IF latest.obv # NaN /\ latest.obv_ema_20 # NaN
    THEN (IF latest.obv[1] > latest.obv_ema_20[1] THEN Some("bullish") ELSE Some("bearish"))
    ELSE None

PriceVsVwap(latest) ==
    IF latest.vwap # NaN /\ latest.vwap[1] > 0 THEN
        IF Abs(latest.close[1] - latest.vwap[1]) * 1000 < latest.vwap[1] THEN Some("at")
        ELSE IF latest.close[1] > latest.vwap[1] THEN Some("above")
        ELSE Some("below")
    ELSE None

get_snapshot(f) ==
    LET n == Len(f.bars)
        latest == Row(f, n)
    IN [timestamp |-> f.bars[n].timestamp,
        price |-> RoundDiv(latest.close[1] * 100, PriceScale),
        ema_9 |-> _safe_round(latest.ema_9, PriceScale, 100),
        ema_20 |-> _safe_round(latest.ema_20, PriceScale, 100),
        ema_50 |-> _safe_round(latest.ema_50, PriceScale, 100),
        ema_200 |-> _safe_round(latest.ema_200, PriceScale, 100),
        ema_stack |-> _classify_ema_stack(latest),
        rsi_14 |-> _safe_round(latest.rsi_14, 100, 10),
        macd |-> IF latest.macd_line # NaN
                 THEN Some([line |-> OrZero(_safe_round(latest.macd_line, PriceScale, 1000)),
                            signal |-> OrZero(_safe_round(latest.macd_signal, PriceScale, 1000)),
                            histogram |-> OrZero(_safe_round(latest.macd_histogram, PriceScale, 1000))])
                 ELSE None,
        stoch_rsi |-> IF latest.stoch_rsi_k # NaN
                      THEN Some([k |-> OrZero(_safe_round(latest.stoch_rsi_k, 100, 10)),
                                 d |-> OrZero(_safe_round(latest.stoch_rsi_d, 100, 10))])
                      ELSE None,
        volume |-> f.bars[n].volume,
        rvol |-> _safe_round(latest.rvol, 100, 100),
        obv_trend |-> ObvTrend(latest),
        vwap |-> _safe_round(latest.vwap, PriceScale, 100),
        price_vs_vwap |-> PriceVsVwap(latest),
        atr_14 |-> _safe_round(latest.atr_14, PriceScale, 100),
        atr_percent |-> _safe_round(latest.atr_percent, 100, 100),
        bollinger |-> IF latest.bb_middle # NaN
                      THEN Some([middle |-> OrZero(_safe_round(latest.bb_middle, PriceScale, 100))])
                      ELSE None,
        adx_14 |-> _safe_round(latest.adx_14, 100, 10),
        adx_trend |-> AdxTrend(latest.adx_14),
        patterns |-> _detect_patterns(f)]

(***************************************************************************)
(* Input series: MaxFlat or fewer flat bars at BasePrice followed by       *)
(* MaxTail or fewer bars that close one unit below, at or above BasePrice, *)
(* either without range and on normal volume or with a one-unit wick on    *)
(* both sides and on triple volume.  Timestamps are the positions.         *)
(***************************************************************************)
TailKinds ==
    [close : {BasePrice - 1, BasePrice, BasePrice + 1}, wick : {0, 1}]
FlatBar(t) ==
    [timestamp |-> t, high |-> BasePrice, low |-> BasePrice, close |-> BasePrice, volume |-> 1]
TailBar(t, k) ==
    [timestamp |-> t, high |-> k.close + k.wick, low |-> k.close - k.wick,
     close |-> k.close, volume |-> IF k.wick = 0 THEN 1 ELSE 3]
Series(flat, tail) ==
    [i \in 1..(flat + Len(tail)) |->
        IF i <= flat THEN FlatBar(i) ELSE TailBar(i, tail[i - flat])]

\* Malformed variants of a series: the last two timestamps exchanged, the
\* last timestamp repeating the one before it (on two equal bars), or a low
\* of 0 on the last bar.
Malformations == {"none", "out_of_order", "duplicate", "non_positive"}
Malform(bs, m) ==
    LET n == Len(bs) IN
    IF m = "out_of_order"
    THEN [bs EXCEPT ![n - 1].timestamp = n, ![n].timestamp = n - 1]
    ELSE IF m = "duplicate" THEN [bs EXCEPT ![n].timestamp = n - 1]
    ELSE IF m = "non_positive" THEN [bs EXCEPT ![n].low = 0]
    ELSE bs
CanMalform(flat, tail, m) ==
    \/ m = "none"
    \/ m = "out_of_order" /\ Len(tail) <= 1 /\ flat + Len(tail) >= 2
    \/ m = "duplicate" /\ tail = <<>> /\ flat >= 2
    \/ m = "non_positive" /\ Len(tail) <= 1 /\ flat + Len(tail) >= 1

InitInd ==
    /\ \E flat \in 0..MaxFlat : \E tail \in SeqsUpTo(TailKinds, MaxTail) :
          \E m \in Malformations :
             /\ CanMalform(flat, tail, m)
             /\ bars = Malform(Series(flat, tail), m)
    /\ self_df = None /\ snapshot = None
    /\ instruments = None /\ signals = None
    /\ form = None /\ response = None /\ quick_req = None /\ quick_response = None
    /\ market = None /\ market_regime = None
    /\ plans_v2 = None /\ plan_response = None /\ exit_tasks = None
    /\ req = None /\ breakdown = None
    /\ optReq = None /\ optRec = None

Construct ==
    /\ self_df = None
    /\ self_df' = Some(IndicatorEngineInit(bars))
    /\ UNCHANGED <<req, breakdown, optReq, optRec, bars, snapshot>>
    /\ UNCHANGED <<crossVars, apiVars, regimeVars, planVars>>

GetSnapshot ==
    /\ self_df # None /\ ~self_df[1].raised
    /\ snapshot = None
    /\ snapshot' = Some(get_snapshot(self_df[1]))
    /\ UNCHANGED <<req, breakdown, optReq, optRec, bars, self_df>>
    /\ UNCHANGED <<crossVars, apiVars, regimeVars, planVars>>

NextInd == Construct \/ GetSnapshot
SpecInd == InitInd /\ [][NextInd]_vars

(***************************************************************************)
(* Claims about IndicatorEngine                                            *)
(***************************************************************************)
BarCount == Len(bars)
Reported(tag) == \E i \in 1..Len(snapshot[1].patterns) : snapshot[1].patterns[i] = tag

\* C7 as claimed: for every non-empty bar sequence shorter than an
\* indicator's minimum window (14 bars for RSI, ATR, ADX and Stochastic RSI;
\* 20 for Bollinger, relative volume and VWAP; 200 for the long EMA) the
\* snapshot field of that indicator is null.
C7_Original ==
    snapshot # None =>
        /\ BarCount < RsiPeriod =>
              /\ snapshot[1].rsi_14 = None
              /\ snapshot[1].atr_14 = None
              /\ snapshot[1].adx_14 = None
              /\ snapshot[1].stoch_rsi = None
        /\ BarCount < RollWindow =>
              /\ snapshot[1].bollinger = None
              /\ snapshot[1].rvol = None
              /\ snapshot[1].vwap = None
        /\ BarCount < 200 => snapshot[1].ema_200 = None

\* on the series in timestamp order, as the engine reads it
NoDownClose ==
    LET sorted == _to_dataframe(bars)
    IN \A i \in 2..BarCount : sorted[i].close >= sorted[i - 1].close
SomeUpClose ==
    LET sorted == _to_dataframe(bars)
    IN \E i \in 2..BarCount : sorted[i].close > sorted[i - 1].close

\* C8: on a series of at least 14 bars without a down-close the smoothed
\* average loss is zero; the constructor does not raise, the rsi_14 column is
\* NaN on the latest bar and the snapshot's rsi_14 is null (not 100).
C8_RsiNullOnZeroLoss ==
    (self_df # None /\ BarCount >= RsiPeriod /\ NoDownClose) =>
        /\ ~self_df[1].raised
        /\ self_df[1].rsi_14[BarCount] = NaN
        /\ snapshot # None => snapshot[1].rsi_14 = None

\* C8 witness: a snapshot of at least 14 bars with an up-close and no
\* down-close (positive average gain, zero average loss) whose rsi_14 is null.
C8_Witness ==
    /\ snapshot # None
    /\ BarCount >= RsiPeriod
    /\ NoDownClose /\ SomeUpClose
    /\ snapshot[1].rsi_14 = None

EmaPairs == {None} \cup {Some(v) : v \in 0..2}
EmaRow(e50, e200) == [ema_50 |-> e50, ema_200 |-> e200]
Both(ps) ==
    /\ \E i \in 1..Len(ps) : ps[i] = "golden_cross"
    /\ \E i \in 1..Len(ps) : ps[i] = "death_cross"

\* C9: the pattern list never contains both golden_cross and death_cross:
\* not in any snapshot, and not for any pair of rows (previous, latest)
\* whose EMA50 and EMA200 are below, at or above each other or missing.
C9_CrossesExclusive ==
    /\ snapshot # None => ~Both(snapshot[1].patterns)
    /\ \A p50 \in EmaPairs, p200 \in EmaPairs, l50 \in EmaPairs, l200 \in EmaPairs :
          ~Both(CrossPatterns(EmaRow(p50, p200), EmaRow(l50, l200)))

\* C9 witness: a snapshot that reports death_cross (and not golden_cross).
C9_Witness ==
    /\ snapshot # None
    /\ Reported("death_cross")
    /\ ~Reported("golden_cross")

Prev50 == self_df[1].ema_50[BarCount - 1][1]
Prev200 == self_df[1].ema_200[BarCount - 1][1]
Latest50 == self_df[1].ema_50[BarCount][1]
Latest200 == self_df[1].ema_200[BarCount][1]

OutOfOrder(bs) == \E i \in 1..(Len(bs) - 1) : bs[i + 1].timestamp < bs[i].timestamp
DuplicateTimestamp(bs) ==
    \E i \in 1..Len(bs), j \in 1..Len(bs) : i # j /\ bs[i].timestamp = bs[j].timestamp
NonPositivePrice(bs) ==
    \E i \in 1..Len(bs) : bs[i].high <= 0 \/ bs[i].low <= 0 \/ bs[i].close <= 0
MalformedInput(bs) == OutOfOrder(bs) \/ DuplicateTimestamp(bs) \/ NonPositivePrice(bs)

\* C12 as claimed: a bar sequence with out-of-order timestamps, duplicate
\* timestamps or a non-positive price is rejected by the constructor with an
\* error, and no snapshot is produced from it.
C12_Original ==
    MalformedInput(bars) =>
        /\ self_df # None => self_df[1].raised
        /\ snapshot = None

(***************************************************************************)
(* cross_asset._compute_cross_signals.  An instrument is None (not         *)
(* fetched) or its metrics dict, of which the signals read change_1w and   *)
(* change_1m, both in hundredths of a percent (they are rounded to two     *)
(* decimals by _compute_metrics).  A signal is its name and severity; the  *)
(* detail text is left out and the em dash of a name is written "-".      *)
(***************************************************************************)
Metrics(change_1w, change_1m) == Some([change_1w |-> change_1w, change_1m |-> change_1m])

\* Pairs <<a, b>> of the input values whose difference a/100 - b/100 in
\* IEEE-754 doubles lies above the exact difference
\* (-7.97 - -8.97 = 1.0000000000000009).
RoundsAbove == {<<-797, -897>>}
\* a - b > k as the float comparison decides it
FloatDiffGt(a, b, k) ==
    \/ a - b > k
    \/ a - b = k /\ <<a, b>> \in RoundsAbove

Signal(name, severity) == [signal |-> name, severity |-> severity]

YieldCurveSignals(tlt, shy) ==
    IF tlt # None /\ shy # None THEN
        LET spread_move == tlt[1].change_1m - shy[1].change_1m
        IN IF spread_move > 200 THEN <<Signal("YIELD CURVE STEEPENING", "high")>>
           ELSE IF spread_move < -200
           THEN <<Signal("YIELD CURVE FLATTENING/INVERSION PRESSURE", "high")>>
           ELSE <<>>
    ELSE <<>>

\* Mutant of CreditSignals: the selloff test is a second "if", not an "elif".
CreditSignalsIf(hyg, lqd) ==
    IF hyg # None /\ lqd # None THEN
        LET hyg_1w == hyg[1].change_1w
            lqd_1w == lqd[1].change_1w
        IN (IF FloatDiffGt(lqd_1w, hyg_1w, 100)
            THEN <<Signal("CREDIT STRESS: FLIGHT TO QUALITY", "high")>> ELSE <<>>)
           \o (IF hyg_1w < -100 /\ lqd_1w < -50
               THEN <<Signal("BROAD CREDIT SELLOFF", "high")>> ELSE <<>>)
    ELSE <<>>

CreditSignals(hyg, lqd) ==
    IF hyg # None /\ lqd # None THEN
        LET hyg_1w == hyg[1].change_1w
            lqd_1w == lqd[1].change_1w
        IN IF FloatDiffGt(lqd_1w, hyg_1w, 100)
           THEN <<Signal("CREDIT STRESS: FLIGHT TO QUALITY", "high")>>
           ELSE IF hyg_1w < -100 /\ lqd_1w < -50
           THEN <<Signal("BROAD CREDIT SELLOFF", "high")>>
           ELSE <<>>
    ELSE <<>>

\* Mutant of RiskAppetiteSignals: only HYG is required, an absent TLT counts
\* as unchanged.
RiskAppetiteSignalsHygOnly(hyg, tlt) ==
    IF hyg # None THEN
        LET risk_appetite == hyg[1].change_1w - (IF tlt # None THEN tlt[1].change_1w ELSE 0)
        IN IF risk_appetite < -200 THEN <<Signal("RISK-OFF: TREASURIES OVER CREDIT", "high")>>
           ELSE IF risk_appetite > 200
           THEN <<Signal("RISK-ON: CREDIT OVER TREASURIES", "medium")>>
           ELSE <<>>
    ELSE <<>>

RiskAppetiteSignals(hyg, tlt) ==
    IF hyg # None /\ tlt # None THEN
        LET risk_appetite == hyg[1].change_1w - tlt[1].change_1w
        IN IF risk_appetite < -200 THEN <<Signal("RISK-OFF: TREASURIES OVER CREDIT", "high")>>
           ELSE IF risk_appetite > 200
           THEN <<Signal("RISK-ON: CREDIT OVER TREASURIES", "medium")>>
           ELSE <<>>
    ELSE <<>>

GoldSignals(gld) ==
    IF gld # None THEN
        IF gld[1].change_1w > 200 THEN <<Signal("GOLD BREAKOUT - FEAR/INFLATION BID", "medium")>>
        ELSE IF gld[1].change_1w < -200
        THEN <<Signal("GOLD SELLOFF - RISK-ON OR DOLLAR STRENGTH", "medium")>>
        ELSE <<>>
    ELSE <<>>

DollarSignals(uup) ==
    IF uup # None THEN
        IF uup[1].change_1w > 100 THEN <<Signal("DOLLAR STRENGTHENING", "medium")>>
        ELSE IF uup[1].change_1w < -100 THEN <<Signal("DOLLAR WEAKENING", "medium")>>
        ELSE <<>>
    ELSE <<>>

BreadthSignals(iwm, rsp) ==
    IF iwm # None /\ rsp # None THEN
        IF iwm[1].change_1w < -200 /\ rsp[1].change_1w < iwm[1].change_1w
        THEN <<Signal("BREADTH DETERIORATION - SMALL CAPS LEADING DOWN", "high")>>
        ELSE IF iwm[1].change_1w > 150 /\ rsp[1].change_1w > 50
        THEN <<Signal("BROAD PARTICIPATION - HEALTHY BREADTH", "medium")>>
        ELSE <<>>
    ELSE <<>>

OilSignals(uso) ==
    IF uso # None THEN
        IF uso[1].change_1w > 300 THEN <<Signal("OIL SPIKE - INFLATION/GEOPOLITICAL RISK", "medium")>>
        ELSE IF uso[1].change_1w < -300
        THEN <<Signal("OIL DECLINE - DEMAND DESTRUCTION FEAR", "medium")>>
        ELSE <<>>
    ELSE <<>>

_compute_cross_signals(ins) ==
    YieldCurveSignals(ins.TLT, ins.SHY)
    \o CreditSignals(ins.HYG, ins.LQD)
    \o RiskAppetiteSignals(ins.HYG, ins.TLT)
    \o GoldSignals(ins.GLD)
    \o DollarSignals(ins.UUP)
    \o BreadthSignals(ins.IWM, ins.RSP)
    \o OilSignals(ins.USO)

\* Inputs: the credit pair around its thresholds, the other instruments on
\* either side of theirs.
HygValues == {None} \cup {Metrics(w, 0) : w \in {-897, -200, -150, -101, -100, 0, 100}}
LqdValues == {None} \cup {Metrics(w, 0) : w \in {-797, -100, -80, -51, -50, 0, 100}}
TltValues == {None, Metrics(-300, 300), Metrics(300, -300), Metrics(0, 0)}
ShyValues == {None, Metrics(0, 0)}
GldValues == {Metrics(-300, 0), Metrics(300, 0)}
UupValues == {None, Metrics(150, 0)}
IwmValues == {Metrics(-300, 0), Metrics(200, 0)}
RspValues == {Metrics(-400, 0), Metrics(100, 0)}
UsoValues == {None, Metrics(400, 0)}
Instruments ==
    [TLT : TltValues, SHY : ShyValues, HYG : HygValues, LQD : LqdValues, GLD : GldValues,
     UUP : UupValues, IWM : IwmValues, RSP : RspValues, USO : UsoValues]

\* every subset of the nine tickers read, each present one on either side of
\* its thresholds
EitherSide(lo, hi) == {None, Metrics(lo, 0), Metrics(hi, 0)}
InstrumentSubsets ==
    [TLT : {None, Metrics(-300, 300), Metrics(300, -300)}, SHY : ShyValues,
     HYG : EitherSide(-300, 300), LQD : EitherSide(-100, 100), GLD : EitherSide(-300, 300),
     UUP : EitherSide(-150, 150), IWM : EitherSide(-300, 200), RSP : EitherSide(-400, 100),
     USO : EitherSide(-400, 400)]

InitCross ==
    /\ instruments \in Instruments \cup InstrumentSubsets
    /\ signals = None
    /\ req = None /\ breakdown = None /\ optReq = None /\ optRec = None
    /\ bars = None /\ self_df = None /\ snapshot = None
    /\ form = None /\ response = None /\ quick_req = None /\ quick_response = None
    /\ market = None /\ market_regime = None
    /\ plans_v2 = None /\ plan_response = None /\ exit_tasks = None

ComputeCrossSignals ==
    /\ signals = None
    /\ instruments # None
    /\ signals' = Some(_compute_cross_signals(instruments))
    /\ UNCHANGED <<req, breakdown, optReq, optRec, bars, self_df, snapshot>>
    /\ UNCHANGED <<instruments, apiVars, regimeVars, planVars>>

NextCross == ComputeCrossSignals
SpecCross == InitCross /\ [][NextCross]_vars

Emitted(name) == \E i \in 1..Len(signals[1]) : signals[1][i].signal = name

\* C11: with HYG and LQD both present, both 1-week changes negative, HYG
\* below -1%, LQD below -0.5% and the computed LQD - HYG not above 1, the
\* signals contain BROAD CREDIT SELLOFF and not CREDIT STRESS: FLIGHT TO
\* QUALITY; and no input yields both credit signals.
C11_BroadSelloffExclusive ==
    signals # None =>
        /\ ~(Emitted("BROAD CREDIT SELLOFF") /\ Emitted("CREDIT STRESS: FLIGHT TO QUALITY"))
        /\ (/\ instruments.HYG # None /\ instruments.LQD # None
            /\ instruments.HYG[1].change_1w < -100
            /\ instruments.LQD[1].change_1w < -50
            /\ ~FloatDiffGt(instruments.LQD[1].change_1w, instruments.HYG[1].change_1w, 100))
           => (/\ Emitted("BROAD CREDIT SELLOFF")
               /\ ~Emitted("CREDIT STRESS: FLIGHT TO QUALITY"))

\* C11 witness: HYG -1.5 and LQD -0.8 answered with BROAD CREDIT SELLOFF.
C11_Witness ==
    /\ signals # None
    /\ instruments.HYG = Metrics(-150, 0)
    /\ instruments.LQD = Metrics(-80, 0)
    /\ Emitted("BROAD CREDIT SELLOFF")
    /\ ~Emitted("CREDIT STRESS: FLIGHT TO QUALITY")

(***************************************************************************)
(* main.analyze_with_upload.  The form carries the request fields and what *)
(* the handler finds: whether a session is active, whether the CSV parses, *)
(* and the snapshot, regime, catalysts and win rate that parsing, the      *)
(* indicator engine, the session and the journal then provide (a scorer    *)
(* profile).  The response records the status, the error detail and the    *)
(* calls made in order; the LLM and database calls are taken to succeed.   *)
(* Every exception, the handler's own HTTPException(400) included, is      *)
(* caught by "except Exception" and answered with status 500.              *)
(***************************************************************************)
Timeframe == {"1m", "5m", "15m", "30m", "1h", "4h", "1d", "1wk"}

\* Mutant of EnumValue: the string is passed on without the Enum lookup.
EnumValueUnchecked(cls, s) == Some(s)

\* Enum(value): the member, or None for the ValueError of an unknown value
EnumValue(cls, s) == IF s \in cls THEN Some(s) ELSE None

Failed(detail, calls) ==
    [status_code |-> 500, detail |-> Some(detail), calls |-> calls,
     score_args |-> None, recommend_args |-> None,
     confidence |-> None, options_rec |-> None]

analyze_with_upload(f) ==
    IF ~f.session THEN {Failed("No active session. Call /api/session/init first.", <<>>)}
    ELSE IF EnumValue(Timeframe, f.timeframe) = None
    THEN {Failed("ValueError: Timeframe", <<>>)}
    ELSE IF ~f.csv_parses THEN {Failed("ValueError: parse_csv_auto", <<"parse_csv_auto">>)}
    ELSE
      LET parsed == <<"parse_csv_auto", "IndicatorEngine", "get_snapshot">>
          tt == EnumValue(TradeType, f.trade_type)
          dir_ == EnumValue(Direction, f.direction)
      IN IF tt = None THEN {Failed("ValueError: TradeType", parsed)}
         ELSE IF dir_ = None THEN {Failed("ValueError: Direction", parsed)}
         ELSE
           LET r == ScoreRequest(f.profile, dir_[1], tt[1])
               b == score(r)
           IN {LET confidence == Breakdown(b, c)
                   rec_args == [trade_type |-> tt[1], direction |-> dir_[1],
                                iv_rank |-> None, composite |-> c,
                                catalyst_risk |-> f.profile.catalysts[1].overall_event_risk,
                                days_to_earnings |-> None]
               IN [status_code |-> 200, detail |-> None,
                   calls |-> parsed \o <<"get_journal_by_ticker", "get_win_rate", "score",
                                         "find_correlated_bellwethers", "recommend",
                                         "analyze_ticker", "save_trade_plan">>,
                   score_args |-> Some([direction |-> dir_[1], trade_type |-> tt[1]]),
                   recommend_args |-> Some(rec_args),
                   confidence |-> Some(confidence),
                   options_rec |-> Some(recommend(rec_args))]
               : c \in composite(b)}

Forms ==
    [session : BOOLEAN, timeframe : {"1d", "2d"}, csv_parses : BOOLEAN,
     profile : {ProfileLong, ProfileShort},
     trade_type : TradeType \cup {"scalp"},
     direction : Direction \cup {"sideways"}]

\* main.analyze_quick: the data comes from fetch_yfinance, which raises
\* ValueError when Yahoo returns nothing; no timeframe is read.
analyze_quick(q) ==
    IF ~q.session THEN {Failed("No active session. Call /api/session/init first.", <<>>)}
    ELSE IF ~q.fetches THEN {Failed("ValueError: fetch_yfinance", <<"fetch_yfinance">>)}
    ELSE
      LET fetched == <<"fetch_yfinance", "IndicatorEngine", "get_snapshot">>
          tt == EnumValue(TradeType, q.trade_type)
          dir_ == EnumValue(Direction, q.direction)
      IN IF tt = None THEN {Failed("ValueError: TradeType", fetched)}
         ELSE IF dir_ = None THEN {Failed("ValueError: Direction", fetched)}
         ELSE
           LET r == ScoreRequest(q.profile, dir_[1], tt[1])
               b == score(r)
           IN {LET confidence == Breakdown(b, c)
                   rec_args == [trade_type |-> tt[1], direction |-> dir_[1],
                                iv_rank |-> None, composite |-> c,
                                catalyst_risk |-> q.profile.catalysts[1].overall_event_risk,
                                days_to_earnings |-> None]
               IN [status_code |-> 200, detail |-> None,
                   calls |-> fetched \o <<"get_journal_by_ticker", "get_win_rate", "score",
                                          "find_correlated_bellwethers", "recommend",
                                          "analyze_ticker", "save_trade_plan">>,
                   score_args |-> Some([direction |-> dir_[1], trade_type |-> tt[1]]),
                   recommend_args |-> Some(rec_args),
                   confidence |-> Some(confidence),
                   options_rec |-> Some(recommend(rec_args))]
               : c \in composite(b)}

QuickAnalyzeRequests ==
    [session : BOOLEAN, fetches : BOOLEAN,
     profile : {ProfileLong, ProfileShort},
     trade_type : TradeType \cup {"scalp"},
     direction : Direction \cup {"sideways"}]

InitApi ==
    /\ \/ form \in {Some(f) : f \in Forms} /\ quick_req = None
       \/ quick_req \in {Some(q) : q \in QuickAnalyzeRequests} /\ form = None
    /\ response = None /\ quick_response = None
    /\ req = None /\ breakdown = None /\ optReq = None /\ optRec = None
    /\ bars = None /\ self_df = None /\ snapshot = None
    /\ instruments = None /\ signals = None
    /\ market = None /\ market_regime = None
    /\ plans_v2 = None /\ plan_response = None /\ exit_tasks = None

AnalyzeWithUpload ==
    /\ form # None
    /\ response = None
    /\ \E r \in analyze_with_upload(form[1]) : response' = Some(r)
    /\ UNCHANGED <<req, breakdown, optReq, optRec, bars, self_df, snapshot>>
    /\ UNCHANGED <<form, quick_req, quick_response, crossVars, regimeVars, planVars>>

AnalyzeQuick ==
    /\ quick_req # None
    /\ quick_response = None
    /\ \E r \in analyze_quick(quick_req[1]) : quick_response' = Some(r)
    /\ UNCHANGED <<req, breakdown, optReq, optRec, bars, self_df, snapshot>>
    /\ UNCHANGED <<form, response, quick_req, crossVars, regimeVars, planVars>>

NextApi == AnalyzeWithUpload \/ AnalyzeQuick
SpecApi == InitApi /\ [][NextApi]_vars

Called(name) == \E i \in 1..Len(response[1].calls) : response[1].calls[i] = name
UnknownEnumValue ==
    form[1].direction \notin Direction \/ form[1].trade_type \notin TradeType

C29_NoSession(request, answer) ==
    (answer # None /\ ~request[1].session) =>
        /\ answer[1].status_code = 400
        /\ answer[1].detail = Some("No active session. Call /api/session/init first.")
        /\ \A i \in 1..Len(answer[1].calls) :
              answer[1].calls[i] \notin {"IndicatorEngine", "get_snapshot", "score",
                                        "recommend", "analyze_ticker"}
C29_Original ==
    /\ C29_NoSession(form, response)
    /\ C29_NoSession(quick_req, quick_response)

(***************************************************************************)
(* RegimeEngine.  A fetched frame is given by what _classify_regime and    *)
(* analyze read of it: its length, the latest close, EMAs and ATR, and the *)
(* 20-EMA of the row df.iloc[-6]; the empty frame has length 0.  The VIX   *)
(* frame is its column of closes.  The timestamp is left out of the        *)
(* MarketRegime.                                                           *)
(***************************************************************************)
MaxVixLen == 6        \* most bars of the VIX series
MaxSectorsWithData == 5   \* the sector ETFs after the first 5 return no data

Frame(len, close, ema_9, ema_20, ema_50, ema_200, atr_14, ema_20_5d_ago) ==
    [len |-> len, close |-> close, ema_9 |-> ema_9, ema_20 |-> ema_20, ema_50 |-> ema_50,
     ema_200 |-> ema_200, atr_14 |-> atr_14, ema_20_5d_ago |-> ema_20_5d_ago]
EmptyFrame == Frame(0, 0, 0, 0, 0, 0, 0, 0)

\* a / b as a fraction with positive denominator, and its comparison with
\* the decimal k / 10
Ratio(a, b) == [num |-> a, den |-> b]
Above(r, k) == 10 * r.num > k * r.den
Below(r, k) == 10 * r.num < k * r.den

BoolSum(flags) == Cardinality({i \in 1..Len(flags) : flags[i]})

\* slope = (ema20_now - ema20_5d_ago) / ema20_5d_ago * 100, or 0
Slope(df) ==
    IF df.len >= 25 /\ df.ema_20_5d_ago > 0
    THEN Ratio((df.ema_20 - df.ema_20_5d_ago) * 100, df.ema_20_5d_ago)
    ELSE Ratio(0, 1)
\* atr_pct = atr_14 / price * 100, or 0
AtrPct(df) == IF df.close > 0 THEN Ratio(df.atr_14 * 100, df.close) ELSE Ratio(0, 1)
AboveCount(df) ==
    BoolSum(<<df.close > df.ema_9, df.close > df.ema_20,
              df.close > df.ema_50, df.close > df.ema_200>>)

\* Mutant of _classify_regime: the volatility override comes after the trend
\* classification instead of before it.
_classify_regimeTrendFirst(df) ==
    IF df.len = 0 \/ df.len < 50 THEN "range_bound"
    ELSE LET above_count == AboveCount(df)
             slope == Slope(df)
         IN IF above_count = 4 /\ Above(slope, 5) THEN "strong_uptrend"
            ELSE IF above_count >= 3 /\ Above(slope, 0) THEN "uptrend"
            ELSE IF above_count <= 1 /\ Below(slope, -5) THEN "strong_downtrend"
            ELSE IF above_count <= 1 /\ Below(slope, 0) THEN "downtrend"
            ELSE IF Above(AtrPct(df), 40) THEN "high_volatility"
            ELSE "range_bound"

_classify_regime(df) ==
    IF df.len = 0 \/ df.len < 50 THEN "range_bound"
    ELSE LET above_count == AboveCount(df)
             slope == Slope(df)
         IN IF Above(AtrPct(df), 40) THEN "high_volatility"
            ELSE IF above_count = 4 /\ Above(slope, 5) THEN "strong_uptrend"
            ELSE IF above_count >= 3 /\ Above(slope, 0) THEN "uptrend"
            ELSE IF above_count <= 1 /\ Below(slope, -5) THEN "strong_downtrend"
            ELSE IF above_count <= 1 /\ Below(slope, 0) THEN "downtrend"
            ELSE "range_bound"

EmaCols == {"ema_9", "ema_20", "ema_50", "ema_200"}
SpyVsEmas(spy) ==
    [c \in (IF spy.len > 0 THEN EmaCols ELSE {}) |->
        IF spy.close > spy[c] THEN "above" ELSE "below"]

MarketDirection(spy_regime) ==
    IF spy_regime \in {"strong_uptrend", "uptrend"} THEN "bullish"
    ELSE IF spy_regime \in {"strong_downtrend", "downtrend"} THEN "bearish"
    ELSE "neutral"

\* vix["close"].iloc[-5] against the latest close; contango on a short series
VixTerm(vix) ==
    IF Len(vix) >= 5
    THEN (IF vix[Len(vix)] < vix[Len(vix) - 4] THEN "contango" ELSE "backwardation")
    ELSE "contango"

VolRegime(vix_current) ==
    IF vix_current < 15 THEN "low"
    ELSE IF vix_current < 20 THEN "normal"
    ELSE IF vix_current < 30 THEN "elevated"
    ELSE "extreme"

\* (vix_1yr < vix_current).sum() / len(vix_1yr) * 100, in tenths
VixPercentile(vix) ==
    LET tail == IF Len(vix) >= 252 THEN SubSeq(vix, Len(vix) - 251, Len(vix)) ELSE vix
        lower == Cardinality({i \in 1..Len(tail) : tail[i] < vix[Len(vix)]})
    IN RoundDiv(lower * 1000, Len(tail))

BullishSignals(spy_regime, vix_current, vix_term) ==
    (IF spy_regime \in {"strong_uptrend", "uptrend"} THEN 2 ELSE 0)
    + (IF vix_current < 18 THEN 1 ELSE 0)
    + (IF vix_term = "contango" THEN 1 ELSE 0)
\* Mutant of BearishSignals: the SPY trend gives no bearish points.
BearishSignalsNoTrend(spy_regime, vix_current, vix_term) ==
    (IF vix_current < 18 THEN 0 ELSE IF vix_current > 25 THEN 1 ELSE 0)
    + (IF vix_term = "contango" THEN 0 ELSE 1)

BearishSignals(spy_regime, vix_current, vix_term) ==
    (IF spy_regime \in {"strong_uptrend", "uptrend"} THEN 0
     ELSE IF spy_regime \in {"strong_downtrend", "downtrend"} THEN 2 ELSE 0)
    + (IF vix_current < 18 THEN 0 ELSE IF vix_current > 25 THEN 1 ELSE 0)
    + (IF vix_term = "contango" THEN 0 ELSE 1)

\* Mutant of Bias: a lead of one point is enough.
BiasLeadOfOne(bullish_signals, bearish_signals) ==
    IF bullish_signals > bearish_signals THEN "bullish"
    ELSE IF bearish_signals > bullish_signals THEN "bearish"
    ELSE "neutral"

Bias(bullish_signals, bearish_signals) ==
    IF bullish_signals > bearish_signals + 1 THEN "bullish"
    ELSE IF bearish_signals > bullish_signals + 1 THEN "bearish"
    ELSE "neutral"

\* Sector rotation.  A sector's one-month history is given by its length,
\* its latest close and the close at iloc[-5]; performance_1m and
\* relative_strength play no part in the ranking and are left out of the
\* SectorRotation.
SECTOR_ETFS ==
    <<[sector |-> "Technology", etf |-> "XLK"], [sector |-> "Healthcare", etf |-> "XLV"],
      [sector |-> "Financials", etf |-> "XLF"], [sector |-> "Energy", etf |-> "XLE"],
      [sector |-> "Consumer Disc.", etf |-> "XLY"], [sector |-> "Consumer Staples", etf |-> "XLP"],
      [sector |-> "Industrials", etf |-> "XLI"], [sector |-> "Materials", etf |-> "XLB"],
      [sector |-> "Real Estate", etf |-> "XLRE"], [sector |-> "Utilities", etf |-> "XLU"],
      [sector |-> "Communication", etf |-> "XLC"]>>

Hist(len, last, fifth) == [len |-> len, last |-> last, fifth |-> fifth]
EmptyHist == Hist(0, 0, 0)

\* round(((close.iloc[-1] / close.iloc[-5]) - 1) * 100, 2) in hundredths of a
\* percent; a return of zero is stored as None
Perf1w(hist) == RoundDiv((hist.last - hist.fifth) * 10000, hist.fifth)
SectorRotation(entry, hist) ==
    [sector |-> entry.sector, etf |-> entry.etf,
     performance_1w |-> IF Perf1w(hist) # 0 THEN Some(Perf1w(hist)) ELSE None]

RECURSIVE SectorsFrom(_, _, _)
SectorsFrom(hists, i, sectors) ==
    IF i > Len(SECTOR_ETFS) THEN sectors
    ELSE IF hists[i].len = 0 \/ hists[i].len < 5 THEN SectorsFrom(hists, i + 1, sectors)
    ELSE SectorsFrom(hists, i + 1, Append(sectors, SectorRotation(SECTOR_ETFS[i], hists[i])))
_analyze_sectors(hists) == SectorsFrom(hists, 1, <<>>)

\* key=lambda s: s.performance_1w or 0
SectorKey(s) == IF s.performance_1w = None THEN 0 ELSE s.performance_1w[1]

\* sorted(): stable, also with reverse=True; x goes behind every element
\* that does not come strictly after it
RECURSIVE InsertByKey(_, _, _)
InsertByKey(sorted, x, reverse) ==
    IF sorted = <<>> THEN <<x>>
    ELSE LET last == sorted[Len(sorted)]
             stays == IF reverse THEN SectorKey(last) >= SectorKey(x)
                      ELSE SectorKey(last) <= SectorKey(x)
         IN IF stays THEN Append(sorted, x)
            ELSE Append(InsertByKey(SubSeq(sorted, 1, Len(sorted) - 1), x, reverse), last)
RECURSIVE SortedFrom(_, _, _, _)
SortedFrom(sectors, i, acc, reverse) ==
    IF i > Len(sectors) THEN acc
    ELSE SortedFrom(sectors, i + 1, InsertByKey(acc, sectors[i], reverse), reverse)
SortedByPerf(sectors, reverse) == SortedFrom(sectors, 1, <<>>, reverse)
FirstThree(s) == SubSeq(s, 1, Min2(3, Len(s)))

SectorLeaders(sectors) == FirstThree(SortedByPerf(sectors, TRUE))

\* Mutant of SectorLaggards: the leaders' ordering read from its end.
SectorLaggardsFromLeaders(sectors) ==
    LET desc == SortedByPerf(sectors, TRUE)
    IN FirstThree([i \in 1..Len(desc) |-> desc[Len(desc) + 1 - i]])

SectorLaggards(sectors) == FirstThree(SortedByPerf(sectors, FALSE))

\* RegimeEngine.analyze: with an empty VIX frame (pd.DataFrame() has no
\* "close" column) the percentile line raises KeyError.
analyze(m) ==
    IF m.vix = <<>> THEN [raised |-> TRUE]
    ELSE
      LET spy_regime == _classify_regime(m.spy)
          vix_current == m.vix[Len(m.vix)]
          vix_term == VixTerm(m.vix)
          sectors == _analyze_sectors(m.sectors)
      IN [raised |-> FALSE,
          sector_leaders |-> SectorLeaders(sectors),
          sector_laggards |-> SectorLaggards(sectors),
          spy_regime |-> spy_regime,
          qqq_regime |-> _classify_regime(m.qqq),
          spy_vs_emas |-> SpyVsEmas(m.spy),
          market_direction |-> MarketDirection(spy_regime),
          vix |-> vix_current,
          vix_percentile |-> VixPercentile(m.vix),
          vix_term_structure |-> vix_term,
          volatility_regime |-> VolRegime(vix_current),
          bias |-> Bias(BullishSignals(spy_regime, vix_current, vix_term),
                        BearishSignals(spy_regime, vix_current, vix_term))]

\* Inputs: every frame around the thresholds of _classify_regime with a few
\* VIX series, and every short VIX series with one frame per regime.
Frames ==
    {EmptyFrame} \cup
    {Frame(len, close, e9, 200 + d20, e50, e200, atr, ago) :
        len \in {49, 50, 252}, close \in {198, 200, 202}, e9 \in {190, 210},
        d20 \in {-1, 1}, e50 \in {190, 210}, e200 \in {190, 210},
        atr \in {0, 8, 10}, ago \in {0, 197, 199, 200, 201, 203}}
RegimeFrames ==
    {EmptyFrame,
     Frame(252, 202, 190, 201, 190, 190, 0, 199),
     Frame(252, 202, 190, 201, 190, 210, 0, 200),
     Frame(252, 198, 210, 199, 210, 210, 0, 201),
     Frame(252, 198, 210, 199, 210, 190, 0, 200),
     Frame(252, 200, 190, 201, 210, 190, 0, 201),
     Frame(252, 202, 190, 201, 190, 190, 10, 199)}
VixCloses == {17, 18, 25, 26}
VixSeries == SeqsUpTo(VixCloses, MaxVixLen)
VixFew == {<<20, 20, 20, 20, 20, 17>>, <<20, 20, 20, 20, 20, 26>>, <<20>>}
\* sector histories: empty, too short, and one-week moves of -1, 0, 1 and 2
\* percent
HistValues ==
    {EmptyHist, Hist(4, 101, 100), Hist(22, 99, 100), Hist(22, 100, 100),
     Hist(22, 101, 100), Hist(22, 102, 100)}
NoSectorData == [i \in 1..Len(SECTOR_ETFS) |-> EmptyHist]
SectorHists ==
    {[i \in 1..Len(SECTOR_ETFS) |-> IF i <= MaxSectorsWithData THEN f[i] ELSE EmptyHist] :
        f \in [1..MaxSectorsWithData -> HistValues]}

InitRegime ==
    /\ \/ \E spy \in Frames, qqq \in RegimeFrames, vix \in VixFew :
             /\ qqq.len = 252 /\ qqq.atr_14 = 0 /\ qqq.ema_20_5d_ago # 200
             /\ market = [spy |-> spy, qqq |-> qqq, vix |-> vix, sectors |-> NoSectorData]
       \/ \E spy \in RegimeFrames, vix \in VixSeries :
             market = [spy |-> spy, qqq |-> spy, vix |-> vix, sectors |-> NoSectorData]
       \/ \E hists \in SectorHists, vix \in {<<>>, <<20>>} :
             market = [spy |-> EmptyFrame, qqq |-> EmptyFrame, vix |-> vix, sectors |-> hists]
    /\ market_regime = None
    /\ req = None /\ breakdown = None /\ optReq = None /\ optRec = None
    /\ bars = None /\ self_df = None /\ snapshot = None
    /\ instruments = None /\ signals = None
    /\ form = None /\ response = None /\ quick_req = None /\ quick_response = None
    /\ plans_v2 = None /\ plan_response = None /\ exit_tasks = None

Analyze ==
    /\ market # None
    /\ market_regime = None
    /\ market_regime' = Some(analyze(market))
    /\ UNCHANGED <<req, breakdown, optReq, optRec, bars, self_df, snapshot>>
    /\ UNCHANGED <<market, crossVars, apiVars, planVars>>

NextRegime == Analyze
SpecRegime == InitRegime /\ [][NextRegime]_vars

(***************************************************************************)
(* Claims about RegimeEngine                                               *)
(***************************************************************************)
Analyzed == market_regime # None /\ ~market_regime[1].raised
Regime == market_regime[1]

\* What C18 says of one frame df and the regime r returned for it.  The
\* percent change of the 20-EMA over the last six bars is taken where it is
\* defined (a positive value six bars back); the latest close is positive.
C18_Says(df, r) ==
    LET cnt == Cardinality({c \in EmaCols : df.close > df[c]})
        chg == df.ema_20 - df.ema_20_5d_ago
        ago == df.ema_20_5d_ago
        hot == df.atr_14 * 100 > 4 * df.close
        strong_up == cnt = 4 /\ chg * 200 > ago
        up == cnt >= 3 /\ chg > 0 /\ ~strong_up
        strong_down == cnt <= 1 /\ chg * 200 < -ago
        down == cnt <= 1 /\ chg < 0 /\ ~strong_down
    IN /\ df.len < 50 => r = "range_bound"
       /\ df.len >= 50 /\ ago > 0 /\ df.close > 0 =>
            /\ hot => r = "high_volatility"
            /\ ~hot /\ strong_up => r = "strong_uptrend"
            /\ ~hot /\ up => r = "uptrend"
            /\ ~hot /\ strong_down => r = "strong_downtrend"
            /\ ~hot /\ down => r = "downtrend"
            /\ ~hot /\ ~strong_up /\ ~up /\ ~strong_down /\ ~down => r = "range_bound"

\* C18: a frame of fewer than 50 bars is range_bound; a longer one is
\* high_volatility whenever ATR% > 4, whatever the EMA position and slope,
\* and otherwise strong_uptrend (count 4, slope > 0.5), uptrend (count >= 3,
\* slope > 0), strong_downtrend (count <= 1, slope < -0.5), downtrend
\* (count <= 1, slope < 0) or range_bound, in that order.
C18_RegimeClassification ==
    Analyzed =>
        /\ C18_Says(market.spy, Regime.spy_regime)
        /\ C18_Says(market.qqq, Regime.qqq_regime)

\* a frame that would be a strong uptrend is overridden by ATR% > 4
C18_Witness ==
    /\ Analyzed
    /\ market.spy.len >= 50
    /\ market.spy.atr_14 * 100 > 4 * market.spy.close
    /\ \A c \in EmaCols : market.spy.close > market.spy[c]
    /\ (market.spy.ema_20 - market.spy.ema_20_5d_ago) * 200 > market.spy.ema_20_5d_ago
    /\ market.spy.ema_20_5d_ago > 0
    /\ Regime.spy_regime = "high_volatility"

\* C19 as stated: the term structure is backwardation exactly when the
\* latest VIX close is strictly greater than the close of vix_5d_ago (the
\* row iloc[-5]), and contango otherwise, in particular when they are equal.
C19_Original ==
    Analyzed =>
        LET n == Len(market.vix)
        IN Regime.vix_term_structure =
             (IF n >= 5 /\ market.vix[n] > market.vix[n - 4]
              THEN "backwardation" ELSE "contango")

\* C20: the bias follows the point system (2 points for the SPY trend, 1 for
\* VIX below 18 or above 25, 1 for the term structure); it is bullish iff the
\* bullish points exceed the bearish by more than 1, bearish symmetrically,
\* and neutral otherwise.
C20_Bull ==
    (IF Regime.spy_regime \in {"uptrend", "strong_uptrend"} THEN 2 ELSE 0)
    + (IF market.vix[Len(market.vix)] < 18 THEN 1 ELSE 0)
    + (IF Regime.vix_term_structure = "contango" THEN 1 ELSE 0)
C20_Bear ==
    (IF Regime.spy_regime \in {"downtrend", "strong_downtrend"} THEN 2 ELSE 0)
    + (IF market.vix[Len(market.vix)] > 25 THEN 1 ELSE 0)
    + (IF Regime.vix_term_structure = "backwardation" THEN 1 ELSE 0)
C20_BiasPointSystem ==
    Analyzed =>
        /\ Regime.vix_term_structure \in {"contango", "backwardation"}
        /\ (Regime.bias = "bullish") = (C20_Bull - C20_Bear > 1)
        /\ (Regime.bias = "bearish") = (C20_Bear - C20_Bull > 1)
        /\ (Regime.bias = "neutral") = (C20_Bull - C20_Bear \in -1..1)

\* a lead of exactly one point leaves the bias neutral
C20_Witness ==
    /\ Analyzed
    /\ C20_Bull - C20_Bear \in {-1, 1}
    /\ Regime.bias = "neutral"

\* sectors with data, by position in SECTOR_ETFS, and their one-week return
C21_WithData == {i \in 1..Len(SECTOR_ETFS) : market.sectors[i].len >= 5}
C21_Return(i) == Perf1w(market.sectors[i])
C21_Index(s) == CHOOSE i \in 1..Len(SECTOR_ETFS) : SECTOR_ETFS[i].etf = s.etf
\* i is ranked before j: a higher (lower, for the laggards) return, or an
\* equal return and an earlier place in the enumeration
C21_Before(i, j, sign) ==
    \/ sign * C21_Return(i) > sign * C21_Return(j)
    \/ C21_Return(i) = C21_Return(j) /\ i < j
C21_Ranked(list, sign) ==
    LET idx == [k \in 1..Len(list) |-> C21_Index(list[k])]
        listed == {idx[k] : k \in 1..Len(list)}
    IN /\ Len(list) = Min2(3, Cardinality(C21_WithData))
       /\ listed \subseteq C21_WithData
       /\ Cardinality(listed) = Len(list)
       /\ \A k \in 1..Len(list) - 1 : C21_Before(idx[k], idx[k + 1], sign)
       /\ \A i \in listed, j \in C21_WithData \ listed : C21_Before(i, j, sign)

\* C21: sector_leaders are the three sectors with the highest one-week
\* return and sector_laggards the three with the lowest, among the sectors
\* with data; equal returns keep the enumeration order in both lists and a
\* sector without data is in neither.
C21_LeadersAndLaggards ==
    Analyzed =>
        /\ C21_Ranked(Regime.sector_leaders, 1)
        /\ C21_Ranked(Regime.sector_laggards, -1)

\* four sectors with data, the third and fourth lowest returns equal: the
\* earlier one is the third laggard
C21_Witness ==
    /\ Analyzed
    /\ Cardinality(C21_WithData) >= 4
    /\ \E i \in C21_WithData, j \in C21_WithData :
          /\ i < j
          /\ C21_Return(i) = C21_Return(j)
          /\ Len(Regime.sector_laggards) = 3
          /\ C21_Index(Regime.sector_laggards[3]) = i
          /\ \A k \in 1..3 : C21_Index(Regime.sector_laggards[k]) # j
    /\ \E i \in 1..MaxSectorsWithData : market.sectors[i].len < 5

\* C28: the bias is never the opposite of the market direction: it is never
\* bullish when the SPY regime is downtrend or strong_downtrend (direction
\* bearish) and never bearish when the SPY regime is uptrend or
\* strong_uptrend (direction bullish).
C28_BiasNeverOpposesDirection ==
    Analyzed =>
        /\ (Regime.spy_regime \in {"downtrend", "strong_downtrend"} =>
             Regime.market_direction = "bearish" /\ Regime.bias # "bullish")
        /\ (Regime.spy_regime \in {"uptrend", "strong_uptrend"} =>
             Regime.market_direction = "bullish" /\ Regime.bias # "bearish")
        /\ ~(Regime.market_direction = "bearish" /\ Regime.bias = "bullish")
        /\ ~(Regime.market_direction = "bullish" /\ Regime.bias = "bearish")

\* a downtrend with a VIX below 18 that fell over five sessions: both
\* volatility points are bullish and the bias is neutral
C28_Witness ==
    /\ Analyzed
    /\ Regime.spy_regime \in {"downtrend", "strong_downtrend"}
    /\ Regime.vix < 18
    /\ Len(market.vix) >= 5
    /\ Regime.vix_term_structure = "contango"
    /\ Regime.bias = "neutral"

(***************************************************************************)
(* Further claims about _compute_cross_signals                             *)
(***************************************************************************)
\* the seven rule families: the instruments each requires and the signals
\* it can emit
C22_Families ==
    {[needs |-> {"TLT", "SHY"},
      names |-> {"YIELD CURVE STEEPENING", "YIELD CURVE FLATTENING/INVERSION PRESSURE"}],
     [needs |-> {"HYG", "LQD"},
      names |-> {"CREDIT STRESS: FLIGHT TO QUALITY", "BROAD CREDIT SELLOFF"}],
     [needs |-> {"HYG", "TLT"},
      names |-> {"RISK-OFF: TREASURIES OVER CREDIT", "RISK-ON: CREDIT OVER TREASURIES"}],
     [needs |-> {"GLD"},
      names |-> {"GOLD BREAKOUT - FEAR/INFLATION BID", "GOLD SELLOFF - RISK-ON OR DOLLAR STRENGTH"}],
     [needs |-> {"UUP"},
      names |-> {"DOLLAR STRENGTHENING", "DOLLAR WEAKENING"}],
     [needs |-> {"IWM", "RSP"},
      names |-> {"BREADTH DETERIORATION - SMALL CAPS LEADING DOWN",
                 "BROAD PARTICIPATION - HEALTHY BREADTH"}],
     [needs |-> {"USO"},
      names |-> {"OIL SPIKE - INFLATION/GEOPOLITICAL RISK", "OIL DECLINE - DEMAND DESTRUCTION FEAR"}]}
C22_From(f) == {i \in 1..Len(signals[1]) : signals[1][i].signal \in f.names}

\* C22: whichever instruments are present, _compute_cross_signals returns a
\* list; a family with an absent instrument emits nothing, every family
\* emits at most one signal (at most seven in all), and every signal is of
\* severity medium or high.
C22_AbsentInstrumentsSkipRules ==
    signals # None =>
        /\ \A f \in C22_Families :
              /\ Cardinality(C22_From(f)) <= 1
              /\ (\E t \in f.needs : instruments[t] = None) => C22_From(f) = {}
        /\ \A i \in 1..Len(signals[1]) :
              /\ signals[1][i].severity \in {"medium", "high"}
              /\ \E f \in C22_Families : i \in C22_From(f)
        /\ Len(signals[1]) <= 7

\* HYG has fallen 3% and TLT and GLD are absent: the risk-appetite and gold
\* families are silent while another family has emitted
C22_Witness ==
    /\ signals # None
    /\ instruments.HYG # None /\ instruments.HYG[1].change_1w < -200
    /\ instruments.TLT = None /\ instruments.GLD = None
    /\ ~Emitted("RISK-OFF: TREASURIES OVER CREDIT")
    /\ Len(signals[1]) >= 1

(***************************************************************************)
(* Further claims about the confidence scorer                              *)
(***************************************************************************)
\* C23 as stated: the adjustment of the momentum sub-score derived from the
\* confirmation ratio, (confirmations / signals - 0.5) * 40, lies within
\* [-20, +20] for every combination of present indicators (in thirds:
\* within [-60, 60]), and the divergence adjustment is +15 for a divergence
\* that agrees with the trade direction and -15 for one that opposes it.
C23_Original ==
    breakdown # None =>
        LET ind == req[1].indicators
            direction == req[1].direction
            agrees == \/ direction = "bullish" /\ ind.rsi_divergence = Some("bullish_divergence")
                      \/ direction = "bearish" /\ ind.rsi_divergence = Some("bearish_divergence")
            opposes == \/ direction = "bullish" /\ ind.rsi_divergence = Some("bearish_divergence")
                       \/ direction = "bearish" /\ ind.rsi_divergence = Some("bullish_divergence")
        IN /\ ConfirmationAdj3(ind, direction) \in -60..60
           /\ agrees => DivergenceAdj(ind, direction) = 15
           /\ opposes => DivergenceAdj(ind, direction) = -15
           /\ (/\ RsiPenalty(ind, direction) = 0
               /\ DivergenceAdj(ind, direction) = 0)
              => breakdown[1].momentum_confirmation \in 90..210

(***************************************************************************)
(* v2 plans (routes/plans_v2.py over database.py).  The collection is the  *)
(* sequence of its documents, a plan id is the position of its document.   *)
(* A document keeps the lifecycle fields and the planned size; prices and  *)
(* P&L are in cents, percentages in hundredths of a percent.  Plans are    *)
(* created without stop price and max premium, so r_realized stays 0 and   *)
(* the only automatic deviation is "oversized".  Timestamps are left out.  *)
(***************************************************************************)
MaxPlans == 1     \* plans created
MaxExits == 1     \* exits recorded on one plan
MaxTasks == 2     \* log_exit requests in progress at once

HTTPException(status_code, detail) == [status_code |-> status_code, detail |-> detail]
Ok(body) == [status_code |-> 200, body |-> body]

\* create_plan: the document inserted for a CreatePlanRequest
NewPlan(creq) ==
    [status |-> "watching",
     size_contracts |-> creq.size_contracts,
     entry |-> None,
     exits |-> <<>>,
     remaining_contracts |-> IF Truthy(creq.size_contracts) THEN creq.size_contracts[1] ELSE 0,
     total_pnl_dollars |-> 0,
     total_pnl_percent |-> 0,
     cancellation |-> None]

\* Database.get_plan_v2: the document or None
get_plan_v2(collection, plan_id) ==
    IF plan_id \in 1..Len(collection) THEN Some(collection[plan_id]) ELSE None

\* Database.update_plan_v2: $set of the fields of updates
update_plan_v2(doc, updates) ==
    [f \in DOMAIN doc |-> IF f \in DOMAIN updates THEN updates[f] ELSE doc[f]]

\* Database.add_plan_exit: $push to exits and $set of remaining_contracts
add_plan_exit(doc, exit_data) ==
    [doc EXCEPT !.exits = Append(@, exit_data),
                !.remaining_contracts = exit_data.remaining_after]

\* log_entry: the error it raises for the plan it read, or None
EntryError(plan, r) ==
    IF plan = None THEN Some(HTTPException(404, "Plan not found"))
    ELSE IF plan[1].status # "watching"
    THEN Some(HTTPException(400, "Cannot enter a plan with this status"))
    ELSE None
EntryData(plan, r) ==
    LET planned_size == plan.size_contracts
        auto_deviations == IF Truthy(planned_size) /\ r.contracts > planned_size[1]
                           THEN <<"oversized">> ELSE <<>>
    IN [fill_price |-> r.fill_price, contracts |-> r.contracts,
        auto_deviations |-> auto_deviations,
        deviation_count |-> Len(auto_deviations)]
EntryUpdates(plan, r) ==
    [status |-> "entered", entry |-> Some(EntryData(plan, r)),
     remaining_contracts |-> r.contracts]

\* log_exit: the error it raises for the plan it read, or None
ExitError(plan, r) ==
    IF plan = None THEN Some(HTTPException(404, "Plan not found"))
    ELSE IF plan[1].status \notin {"entered"}
    THEN Some(HTTPException(400, "Cannot exit a plan with this status"))
    ELSE IF r.contracts > plan[1].remaining_contracts
    THEN Some(HTTPException(400, "Cannot exit more contracts than remaining"))
    ELSE None

RECURSIVE SumPnl(_, _)
SumPnl(exits, i) == IF i > Len(exits) THEN 0 ELSE exits[i].pnl_dollars + SumPnl(exits, i + 1)

\* (req.price - fill_price) * 100 * req.contracts
PnlDollars(plan, r) == (r.price - plan.entry[1].fill_price) * 100 * r.contracts
ExitData(plan, r) ==
    LET fill_price == plan.entry[1].fill_price
    IN [price |-> r.price, contracts |-> r.contracts, type |-> r.exit_type,
        pnl_dollars |-> PnlDollars(plan, r),
        pnl_percent |-> IF fill_price > 0
                        THEN RoundDiv((r.price - fill_price) * 10000, fill_price) ELSE 0,
        remaining_after |-> plan.remaining_contracts - r.contracts]

NewStatus(plan, r) ==
    IF plan.remaining_contracts - r.contracts = 0
    THEN (IF r.exit_type = "stopped_out" THEN "stopped_out" ELSE "exited")
    ELSE "entered"

ExitUpdates(plan, r) ==
    LET all_pnl == SumPnl(plan.exits, 1) + PnlDollars(plan, r)
        total_entry_cost == plan.entry[1].fill_price * 100 * plan.entry[1].contracts
        base == [total_pnl_dollars |-> all_pnl, status |-> NewStatus(plan, r)]
    IN IF total_entry_cost > 0
       THEN base @@ [total_pnl_percent |-> RoundDiv(all_pnl * 10000, total_entry_cost)]
       ELSE base

\* Mutant of log_exit: the exit is pushed before the remaining contracts are
\* compared.
log_exitPushFirst(collection, plan_id, r) ==
    LET plan == get_plan_v2(collection, plan_id)
        pushed == [collection EXCEPT ![plan_id] = add_plan_exit(@, ExitData(plan[1], r))]
    IN IF plan = None \/ plan[1].status \notin {"entered"}
       THEN [collection |-> collection, result |-> ExitError(plan, r)[1]]
       ELSE IF ExitError(plan, r) # None
       THEN [collection |-> pushed, result |-> ExitError(plan, r)[1]]
       ELSE [collection |-> [pushed EXCEPT
                                ![plan_id] = update_plan_v2(@, ExitUpdates(plan[1], r))],
             result |-> Ok([status |-> NewStatus(plan[1], r),
                            remaining_contracts |-> ExitData(plan[1], r).remaining_after])]

\* log_exit: the collection after the request and the answer; the writes
\* are add_plan_exit and then update_plan_v2
log_exit(collection, plan_id, r) ==
    LET plan == get_plan_v2(collection, plan_id)
    IN IF ExitError(plan, r) # None
       THEN [collection |-> collection, result |-> ExitError(plan, r)[1]]
       ELSE [collection |-> [collection EXCEPT
                ![plan_id] = update_plan_v2(add_plan_exit(@, ExitData(plan[1], r)),
                                            ExitUpdates(plan[1], r))],
             result |-> Ok([status |-> NewStatus(plan[1], r),
                            remaining_contracts |-> ExitData(plan[1], r).remaining_after])]

\* Mutant of CancelError: an entered plan can be cancelled too.
CancelErrorNotClosed(plan) ==
    IF plan = None THEN Some(HTTPException(404, "Plan not found"))
    ELSE IF plan[1].status \notin {"watching", "entered"}
    THEN Some(HTTPException(400, "Only watching plans can be cancelled"))
    ELSE None

\* cancel_plan: the error it raises for the plan it read, or None
CancelError(plan) ==
    IF plan = None THEN Some(HTTPException(404, "Plan not found"))
    ELSE IF plan[1].status # "watching"
    THEN Some(HTTPException(400, "Only watching plans can be cancelled"))
    ELSE None

\* Requests.  contracts is an unvalidated int, so a negative number is among
\* the values; the fill is 2.00, a target is taken at 3.00 and a stop at 1.00.
ContractValues == {-1, 1, 2}
CreatePlanRequests == [size_contracts : {Some(1)}]
LogEntryRequests == [fill_price : {200}, contracts : ContractValues]
LogExitRequests ==
    {r \in [price : {100, 300}, contracts : ContractValues,
            exit_type : {"target_1", "stopped_out"}] :
        r.price = 100 <=> r.exit_type = "stopped_out"}
CancelPlanRequests == [reason : {"no setup"}]
\* ids of the requests: the plans that can exist and one that never does
PlanIds == 1..(MaxPlans + 1)

InitPlans ==
    /\ plans_v2 = <<>>
    /\ plan_response = None
    /\ exit_tasks = None
    /\ req = None /\ breakdown = None /\ optReq = None /\ optRec = None
    /\ bars = None /\ self_df = None /\ snapshot = None
    /\ instruments = None /\ signals = None
    /\ form = None /\ response = None /\ quick_req = None /\ quick_response = None
    /\ market = None /\ market_regime = None

UnchangedByPlans ==
    /\ UNCHANGED <<req, breakdown, optReq, optRec, bars, self_df, snapshot>>
    /\ UNCHANGED <<crossVars, apiVars, regimeVars>>

\* the request and what it was answered with
Answer(op, plan_id, r, result) ==
    Some([op |-> op, plan_id |-> plan_id, request |-> r,
          status_code |-> result.status_code, result |-> result])

\* POST /plans
CreatePlan ==
    /\ Len(plans_v2) < MaxPlans
    /\ \E creq \in CreatePlanRequests :
          /\ plans_v2' = Append(plans_v2, NewPlan(creq))
          /\ plan_response' = Answer("create_plan", Len(plans_v2) + 1, creq, Ok(NewPlan(creq)))
    /\ UNCHANGED exit_tasks
    /\ UnchangedByPlans

\* POST /plans/{plan_id}/entry, from the read to the answer
LogEntry ==
    /\ \E plan_id \in PlanIds, r \in LogEntryRequests :
          LET plan == get_plan_v2(plans_v2, plan_id)
          IN IF EntryError(plan, r) # None
             THEN /\ plan_response' = Answer("log_entry", plan_id, r, EntryError(plan, r)[1])
                  /\ UNCHANGED plans_v2
             ELSE /\ plans_v2' = [plans_v2 EXCEPT
                                    ![plan_id] = update_plan_v2(@, EntryUpdates(plan[1], r))]
                  /\ plan_response' = Answer("log_entry", plan_id, r,
                                             Ok([status |-> "entered"]))
    /\ UNCHANGED exit_tasks
    /\ UnchangedByPlans

\* POST /plans/{plan_id}/exit, from the read to the answer
LogExit ==
    /\ \E plan_id \in PlanIds, r \in LogExitRequests :
          LET out == log_exit(plans_v2, plan_id, r)
          IN /\ \A i \in 1..Len(out.collection) : Len(out.collection[i].exits) <= MaxExits
             /\ plans_v2' = out.collection
             /\ plan_response' = Answer("log_exit", plan_id, r, out.result)
    /\ UNCHANGED exit_tasks
    /\ UnchangedByPlans

\* POST /plans/{plan_id}/cancel, from the read to the answer
CancelPlan ==
    /\ \E plan_id \in PlanIds, r \in CancelPlanRequests :
          LET plan == get_plan_v2(plans_v2, plan_id)
          IN IF CancelError(plan) # None
             THEN /\ plan_response' = Answer("cancel_plan", plan_id, r, CancelError(plan)[1])
                  /\ UNCHANGED plans_v2
             ELSE /\ plans_v2' = [plans_v2 EXCEPT
                        ![plan_id] = update_plan_v2(@, [status |-> "cancelled",
                                                        cancellation |-> Some(r.reason)])]
                  /\ plan_response' = Answer("cancel_plan", plan_id, r,
                                             Ok([status |-> "cancelled"]))
    /\ UNCHANGED exit_tasks
    /\ UnchangedByPlans

NextPlans == CreatePlan \/ LogEntry \/ LogExit \/ CancelPlan
SpecPlans == InitPlans /\ [][NextPlans]_vars

(***************************************************************************)
(* Claims about the v2 plan lifecycle, requests handled one at a time      *)
(***************************************************************************)
\* the status changes C24 allows, each with the operation that makes it
C24_Allowed ==
    {<<"watching", "entered", "log_entry">>, <<"watching", "cancelled", "cancel_plan">>,
     <<"entered", "exited", "log_exit">>, <<"entered", "stopped_out", "log_exit">>}
C24_Step ==
    /\ Len(plans_v2') >= Len(plans_v2)
    /\ \A id \in 1..Len(plans_v2') :
          IF id > Len(plans_v2) THEN plans_v2'[id].status = "watching"
          ELSE \/ plans_v2'[id].status = plans_v2[id].status
               \/ <<plans_v2[id].status, plans_v2'[id].status, plan_response'[1].op>>
                     \in C24_Allowed

RECURSIVE C25_ExitedContracts(_, _)
C25_ExitedContracts(exits, i) ==
    IF i > Len(exits) THEN 0 ELSE exits[i].contracts + C25_ExitedContracts(exits, i + 1)

\* C25 as stated: after any log_entry and log_exit requests handled one at a
\* time, an entered plan's remaining_contracts lies between 0 and the
\* contracts entered and equals the contracts entered minus the contracts of
\* all recorded exits, and its status is exited or stopped_out exactly when
\* an exit has brought remaining_contracts to 0.
C25_Original ==
    plans_v2 # None =>
        \A id \in 1..Len(plans_v2) :
            LET plan == plans_v2[id]
            IN plan.entry # None =>
                /\ plan.remaining_contracts >= 0
                /\ plan.remaining_contracts <= plan.entry[1].contracts
                /\ plan.remaining_contracts =
                      plan.entry[1].contracts - C25_ExitedContracts(plan.exits, 1)
                /\ (plan.status \in {"exited", "stopped_out"})
                      = (plan.remaining_contracts = 0 /\ plan.exits # <<>>)

\* C27: a log_entry, log_exit or cancel_plan request for an unknown plan id,
\* for a plan not in the required status, or (log_exit) for more contracts
\* than remain is answered with an error, and a request answered with an
\* error leaves the collection as it was.
C27_Step ==
    plan_response' # None =>
        LET a == plan_response'[1]
            plan == get_plan_v2(plans_v2, a.plan_id)
            refused ==
                /\ a.op \in {"log_entry", "log_exit", "cancel_plan"}
                /\ \/ plan = None
                   \/ a.op \in {"log_entry", "cancel_plan"} /\ plan[1].status # "watching"
                   \/ a.op = "log_exit" /\ plan[1].status # "entered"
                   \/ a.op = "log_exit" /\ a.request.contracts > plan[1].remaining_contracts
        IN /\ refused => a.status_code \in {400, 404}
           /\ a.status_code >= 400 => plans_v2' = plans_v2
C27_RejectedLeavesPlanUnchanged == [][C27_Step]_vars

\* an exit for more contracts than remain, refused, on a plan that already
\* has an exit
C27_Witness ==
    /\ plans_v2 # None /\ plan_response # None
    /\ plan_response[1].op = "log_exit"
    /\ plan_response[1].status_code = 400
    /\ plan_response[1].plan_id <= Len(plans_v2)
    /\ LET plan == plans_v2[plan_response[1].plan_id]
       IN /\ plan.status = "entered"
          /\ plan.exits # <<>>
          /\ plan_response[1].request.contracts > plan.remaining_contracts

(***************************************************************************)
(* log_exit requests in progress together.  The handler awaits get_plan_v2,*)
(* add_plan_exit and update_plan_v2 in turn; another request can run       *)
(* between two awaits.  A task keeps the plan it read.  The plan has been  *)
(* entered with 1 or 2 contracts and every exit asks for 1 or 2.           *)
(***************************************************************************)
Tasks == 1..MaxTasks
IdleTask == [pc |-> "idle", request |-> None, plan |-> None, result |-> None]
EnteredPlans ==
    {update_plan_v2(NewPlan(creq), EntryUpdates(NewPlan(creq), r)) :
        creq \in CreatePlanRequests, r \in {e \in LogEntryRequests : e.contracts >= 1}}
RaceExitRequests == {r \in LogExitRequests : r.contracts >= 1}

InitPlansRace ==
    /\ \E plan \in EnteredPlans : plans_v2 = <<plan>>
    /\ plan_response = None
    /\ exit_tasks = [t \in Tasks |-> IdleTask]
    /\ req = None /\ breakdown = None /\ optReq = None /\ optRec = None
    /\ bars = None /\ self_df = None /\ snapshot = None
    /\ instruments = None /\ signals = None
    /\ form = None /\ response = None /\ quick_req = None /\ quick_response = None
    /\ market = None /\ market_regime = None

\* plan = await db.get_plan_v2(plan_id), and the checks on what was read
ExitRead(t) ==
    /\ exit_tasks[t].pc = "idle"
    /\ \E r \in RaceExitRequests :
          LET plan == get_plan_v2(plans_v2, 1)
          IN exit_tasks' = [exit_tasks EXCEPT ![t] =
                IF ExitError(plan, r) # None
                THEN [pc |-> "done", request |-> Some(r), plan |-> plan,
                      result |-> Some(ExitError(plan, r)[1])]
                ELSE [pc |-> "push", request |-> Some(r), plan |-> plan, result |-> None]]
    /\ UNCHANGED <<plans_v2, plan_response>>
    /\ UnchangedByPlans

\* await db.add_plan_exit(plan_id, exit_data)
ExitPush(t) ==
    /\ exit_tasks[t].pc = "push"
    /\ plans_v2' = [plans_v2 EXCEPT ![1] =
          add_plan_exit(@, ExitData(exit_tasks[t].plan[1], exit_tasks[t].request[1]))]
    /\ exit_tasks' = [exit_tasks EXCEPT ![t].pc = "update"]
    /\ UNCHANGED plan_response
    /\ UnchangedByPlans

\* await db.update_plan_v2(plan_id, updates), and the answer
ExitUpdate(t) ==
    /\ exit_tasks[t].pc = "update"
    /\ LET plan == exit_tasks[t].plan[1]
           r == exit_tasks[t].request[1]
       IN /\ plans_v2' = [plans_v2 EXCEPT ![1] = update_plan_v2(@, ExitUpdates(plan, r))]
          /\ exit_tasks' = [exit_tasks EXCEPT
                ![t].pc = "done",
                ![t].result = Some(Ok([status |-> NewStatus(plan, r),
                                       remaining_contracts |-> ExitData(plan, r).remaining_after]))]
    /\ UNCHANGED plan_response
    /\ UnchangedByPlans

NextPlansRace == \E t \in Tasks : ExitRead(t) \/ ExitPush(t) \/ ExitUpdate(t)
SpecPlansRace == InitPlansRace /\ [][NextPlansRace]_vars

\* C26 as stated: when log_exit requests for one plan interleave, the
\* contracts of the recorded exits never exceed the contracts entered, and
\* once no request is between its writes the stored remaining_contracts and
\* total_pnl_dollars are the values the recorded exits give.
C26_Original ==
    (plans_v2 # None /\ exit_tasks # None) =>
        LET plan == plans_v2[1]
            settled == \A t \in Tasks : exit_tasks[t].pc \in {"idle", "done"}
        IN /\ C25_ExitedContracts(plan.exits, 1) <= plan.entry[1].contracts
           /\ settled =>
                /\ plan.remaining_contracts =
                      plan.entry[1].contracts - C25_ExitedContracts(plan.exits, 1)
                /\ plan.total_pnl_dollars = SumPnl(plan.exits, 1)

=============================================================================
